---------------------------- MODULE Spec2Model ----------------------------
(***************************************************************************)
(* A model of src/verilator/scripts/convert_verilog_io_to_csv.py: the      *)
(* expression evaluator (EvalExpr, safe_eval), the literal normaliser      *)
(* (preprocess_verilog_literals), the output helpers (info_line, io_line,  *)
(* c_loop_for_write) and the block scanner process_lines, driven by main.  *)
(*                                                                         *)
(* Text is modelled structurally.  An expression is a sequence of tokens.  *)
(* An input line is a record of the optional segments a line of the input  *)
(* notation is made of, in their textual order:                            *)
(*   [indent] [//] [repeat(N)] [for (v = s; v < e; inc)] [begin]           *)
(*   [write_io(port, expr) [;]] [end] [junk]                               *)
(* and every regular expression of the program is an operator that says    *)
(* what the expression matches on such a line.                             *)
(*                                                                         *)
(* The module also models the two log converters of the same directory,    *)
(* convert_testpattern.py and generate_testpattern_csv.py                  *)
(* (SpecTestPattern): a log line is a record of the fields its pattern     *)
(* captures.                                                               *)
(***************************************************************************)
EXTENDS Integers, Sequences, FiniteSets, TLC

(***************************************************************************)
(* Bounds of the model.                                                    *)
(***************************************************************************)
MaxCount == 2
MaxBound == 3
MaxThreshold == 2
MaxBlank == 1

(***************************************************************************)
(* Tokens of expression text.                                              *)
(***************************************************************************)
Num(n) == [k |-> "num", s |-> "", v |-> n]
\* the integer literal hex(n) writes: 0x<digits>
HexNum(n) == [k |-> "num", s |-> "0x", v |-> n]
\* a literal that is no integer (1.5, 'a')
Other(x) == [k |-> "const", s |-> x, v |-> 0]
Id(x) == [k |-> "id", s |-> x, v |-> 0]
Op(x) == [k |-> "op", s |-> x, v |-> 0]
\* a Verilog literal <width>'<base><digits>: s is the base letter, v the
\* declared width, d the characters of the digit group
SizedLit(width, base, digits) == [k |-> "sized", s |-> base, v |-> width, d |-> digits]
\* a Verilog literal '<base><digits>
UnsizedLit(base, digits) == [k |-> "unsized", s |-> base, v |-> 0, d |-> digits]
Semi == [k |-> "semi", s |-> ";", v |-> 0]
Ws == [k |-> "ws", s |-> " ", v |-> 0]

PORT_MAP == [n \in 0..3 |-> 136 + n]

(***************************************************************************)
(* Python integer arithmetic.                                              *)
(***************************************************************************)
PyFloorDiv(a, b) == IF b > 0 THEN a \div b ELSE (0 - a) \div (0 - b)

PyMod(a, b) == IF b > 0 THEN a % b ELSE 0 - ((0 - a) % (0 - b))

RECURSIVE Pow2(_)
Pow2(n) == IF n <= 0 THEN 1 ELSE 2 * Pow2(n - 1)

RECURSIVE PyAnd(_, _)
PyAnd(a, b) ==
    IF a = 0 \/ b = 0 THEN 0
    ELSE IF a = -1 THEN b
    ELSE IF b = -1 THEN a
    ELSE (IF a % 2 = 1 /\ b % 2 = 1 THEN 1 ELSE 0) + 2 * PyAnd(a \div 2, b \div 2)

RECURSIVE PyOr(_, _)
PyOr(a, b) ==
    IF a = 0 THEN b
    ELSE IF b = 0 THEN a
    ELSE IF a = -1 \/ b = -1 THEN -1
    ELSE (IF a % 2 = 1 \/ b % 2 = 1 THEN 1 ELSE 0) + 2 * PyOr(a \div 2, b \div 2)

RECURSIVE PyXor(_, _)
PyXor(a, b) ==
    IF a = 0 THEN b
    ELSE IF b = 0 THEN a
    ELSE IF a = -1 THEN 0 - b - 1
    ELSE IF b = -1 THEN 0 - a - 1
    ELSE (IF a % 2 # b % 2 THEN 1 ELSE 0) + 2 * PyXor(a \div 2, b \div 2)

(***************************************************************************)
(* EvalExpr: the result of a visit is [ok, v]; ok = FALSE is a raised      *)
(* exception.                                                              *)
(***************************************************************************)
Fail == [ok |-> FALSE, v |-> 0]
Val(n) == [ok |-> TRUE, v |-> n]

\* visit_BinOp: the operators it accepts, by the token the parser reads them from
visit_BinOp(op, left, right) ==
    CASE op = "+" -> Val(left + right)
      [] op = "-" -> Val(left - right)
      [] op = "*" -> Val(left * right)
      [] op = "/" -> IF right = 0 THEN Fail ELSE Val(PyFloorDiv(left, right))
      [] op = "%" -> IF right = 0 THEN Fail ELSE Val(PyMod(left, right))
      [] op = "<<" -> IF right < 0 THEN Fail ELSE Val(left * Pow2(right))
      [] op = ">>" -> IF right < 0 THEN Fail ELSE Val(left \div Pow2(right))
      [] op = "|" -> Val(PyOr(left, right))
      [] op = "&" -> Val(PyAnd(left, right))
      [] op = "^" -> Val(PyXor(left, right))
      [] OTHER -> Fail

visit_UnaryOp(op, operand) ==
    CASE op = "-" -> Val(0 - operand)
      [] op = "+" -> Val(operand)
      [] op = "~" -> Val(0 - operand - 1)
      [] OTHER -> Fail

\* visit_Constant: isinstance(node.value, int) holds for the integers and for
\* the two booleans; int() of a boolean is 1 or 0
visit_Constant(tok) ==
    IF tok.k = "num" THEN Val(tok.v)
    ELSE IF tok.k = "id" /\ tok.s = "True" THEN Val(1)
    ELSE IF tok.k = "id" /\ tok.s = "False" THEN Val(0)
    ELSE Fail

visit_Name(names, id) == IF id \in DOMAIN names THEN Val(names[id]) ELSE Fail

NoNames == [x \in {} |-> 0]


(***************************************************************************)
(* ast.parse(s, mode="eval") followed by EvalExpr.visit, over the tokens   *)
(* of s.  A parse result is [ok, v, p]: p is the position of the next      *)
(* unread token.  Binary operators are read by Python's precedence levels  *)
(* (loosest first): | ; ^ ; & ; << >> ; + - ; * / % // ; then the unary    *)
(* operators and the atoms.                                                *)
(***************************************************************************)
PFail == [ok |-> FALSE, v |-> 0, p |-> 0]
PVal(n, q) == [ok |-> TRUE, v |-> n, p |-> q]

LevelOps(l) ==
    CASE l = 1 -> {"|"}
      [] l = 2 -> {"^"}
      [] l = 3 -> {"&"}
      [] l = 4 -> {"<<", ">>"}
      [] l = 5 -> {"+", "-"}
      [] OTHER -> {"*", "/", "%", "//"}

IsOp(toks, p, ops) == p <= Len(toks) /\ toks[p].k = "op" /\ toks[p].s \in ops

\* a visit's result as a parse result ending before position q
Parsed(r, q) == IF r.ok THEN PVal(r.v, q) ELSE PFail

\* the BinOp node of left and right, visited
BinOp(op, left, right) ==
    IF left.ok /\ right.ok THEN Parsed(visit_BinOp(op, left.v, right.v), right.p)
    ELSE PFail

\* the UnaryOp node of operand, visited
UnaryOp(op, operand) ==
    IF operand.ok THEN Parsed(visit_UnaryOp(op, operand.v), operand.p) ELSE PFail

\* a parenthesised expression e needs its ")"
Closed(toks, e) == IF e.ok /\ IsOp(toks, e.p, {")"}) THEN PVal(e.v, e.p + 1) ELSE PFail

RECURSIVE ParseBin(_, _, _, _)
RECURSIVE ParseTail(_, _, _, _)
RECURSIVE ParseUnary(_, _, _)
RECURSIVE ParseAtom(_, _, _)

ParseBin(names, toks, p, l) ==
    IF l > 6 THEN ParseUnary(names, toks, p)
    ELSE ParseTail(names, toks, ParseBin(names, toks, p, l + 1), l)

\* the operators of level l that follow the operand left, left to right
ParseTail(names, toks, left, l) ==
    IF left.ok /\ IsOp(toks, left.p, LevelOps(l))
    THEN ParseTail(names, toks,
                   BinOp(toks[left.p].s, left, ParseBin(names, toks, left.p + 1, l + 1)),
                   l)
    ELSE left

ParseUnary(names, toks, p) ==
    IF IsOp(toks, p, {"+", "-", "~"})
    THEN UnaryOp(toks[p].s, ParseUnary(names, toks, p + 1))
    ELSE ParseAtom(names, toks, p)

ParseAtom(names, toks, p) ==
    IF p > Len(toks) THEN PFail
    ELSE CASE toks[p].k \in {"num", "const"} -> Parsed(visit_Constant(toks[p]), p + 1)
           [] toks[p].k = "id" /\ toks[p].s \in {"True", "False", "None"} ->
                Parsed(visit_Constant(toks[p]), p + 1)
           [] toks[p].k = "id" -> Parsed(visit_Name(names, toks[p].s), p + 1)
           [] toks[p].k = "op" /\ toks[p].s = "(" ->
                Closed(toks, ParseBin(names, toks, p + 1, 1))
           [] OTHER -> PFail

(***************************************************************************)
(* preprocess_verilog_literals: the four substitutions in their order,     *)
(* then every ";" becomes a blank.                                         *)
(***************************************************************************)
DecChars == <<"0", "1", "2", "3", "4", "5", "6", "7", "8", "9">>
HexChars == DecChars \o <<"A", "B", "C", "D", "E", "F">>
LowerHexChars == DecChars \o <<"a", "b", "c", "d", "e", "f">>
Chars(cs) == {cs[n] : n \in 1..Len(cs)}

\* the value int() gives a digit
IntOfDigit(c) ==
    IF c \in Chars(HexChars) THEN (CHOOSE n \in 1..Len(HexChars) : HexChars[n] = c) - 1
    ELSE (CHOOSE n \in 1..Len(LowerHexChars) : LowerHexChars[n] = c) - 1

\* int(text.replace("_", ""), base) for a digit group holding a digit
RECURSIVE IntOfDigits(_, _)
IntOfDigits(digits, base) ==
    IF digits = <<>> THEN 0
    ELSE IF digits[Len(digits)] = "_"
         THEN IntOfDigits(SubSeq(digits, 1, Len(digits) - 1), base)
    ELSE IntOfDigits(SubSeq(digits, 1, Len(digits) - 1), base) * base
         + IntOfDigit(digits[Len(digits)])

\* the classes [0-9A-Fa-f_]+ and [0-9_]+ followed by \b: the whole digit
\* group has to be of the class
HexGroup(tok) ==
    /\ tok.s = "h" /\ tok.d # <<>>
    /\ \A n \in 1..Len(tok.d) :
          tok.d[n] \in Chars(HexChars) \cup Chars(LowerHexChars) \cup {"_"}
DecGroup(tok) ==
    /\ tok.s = "d" /\ tok.d # <<>>
    /\ \A n \in 1..Len(tok.d) : tok.d[n] \in Chars(DecChars) \cup {"_"}

\* a replacement that cuts the value to the declared width
rep_h_to_width(tok) == HexNum(IntOfDigits(tok.d, 16) % Pow2(tok.v))

\* rep_h and rep_d: what a match is put back as
rep_h(tok) == HexNum(IntOfDigits(tok.d, 16))
rep_d(tok) == Num(IntOfDigits(tok.d, 10))

\* re.sub over the tokens of s with the 'h patterns and with the 'd patterns
SubHex(s, kind) ==
    [n \in 1..Len(s) |-> IF s[n].k = kind /\ HexGroup(s[n]) THEN rep_h(s[n]) ELSE s[n]]
SubDec(s, kind) ==
    [n \in 1..Len(s) |-> IF s[n].k = kind /\ DecGroup(s[n]) THEN rep_d(s[n]) ELSE s[n]]

preprocess_verilog_literals(s) ==
    LET s1 == SubHex(s, "sized")
        s2 == SubDec(s1, "sized")
        s3 == SubHex(s2, "unsized")
        s4 == SubDec(s3, "unsized")
    IN  [n \in 1..Len(s4) |-> IF s4[n].k = "semi" THEN Ws ELSE s4[n]]

\* str.strip() of a token sequence
RECURSIVE Strip(_)
Strip(s) ==
    IF s = <<>> THEN s
    ELSE IF Head(s).k = "ws" THEN Strip(Tail(s))
    ELSE IF s[Len(s)].k = "ws" THEN Strip(SubSeq(s, 1, Len(s) - 1))
    ELSE s

\* the tokens the Python tokenizer hands the parser: blanks between tokens vanish
NoBlanks(s) == SelectSeq(s, LAMBDA t : t.k # "ws")

\* the whole text must have been read
Whole(toks, r) == IF r.ok /\ r.p = Len(toks) + 1 THEN Val(r.v) ELSE Fail

EvalTokens(toks, names) == Whole(toks, ParseBin(names, toks, 1, 1))

EvalStripped(s, names) == IF s = <<>> THEN Val(0) ELSE EvalTokens(NoBlanks(s), names)

safe_eval(expr, names) == EvalStripped(Strip(preprocess_verilog_literals(expr)), names)

(***************************************************************************)
(* Port tokens.  k is the shape of the token: "sym" is vdp_io<v>, "hex" is *)
(* 0x<digits>, "dec" a decimal literal, "dec0" a decimal literal of value  *)
(* v > 0 written with a leading zero (010), "name" any other identifier    *)
(* (not_a_port, vdp_io4).                                                  *)
(***************************************************************************)
Port(kind, n) == [k |-> kind, v |-> n]

\* the alternation (vdp_io[0-3]|0x[0-9A-Fa-f]+|\d+) of re_write and re_repeat_inline
PortShape(port) ==
    \/ port.k = "sym" /\ port.v \in 0..3
    \/ port.k \in {"hex", "dec", "dec0"}

\* int(p, 0)
int0(port) == IF port.k \in {"hex", "dec"} THEN Val(port.v) ELSE Fail

(***************************************************************************)
(* Output lines.                                                           *)
(***************************************************************************)
\* info_line: the text is kept as the sequence of (partial) input lines it is
\* made of; the characters of the modelled lines hold no double quote
info_line(s) == [type |-> "INFO", text |-> s]

\* an IO line that carries the value as it was computed
IoEvent_unmasked(portnum, value) == [type |-> "IO", port |-> portnum, value |-> value]

\* line 143: the value is masked with 0xFF
IoEvent(portnum, value) == [type |-> "IO", port |-> portnum, value |-> value % 256]

\* the number of characters the format 02x writes for n >= 0: the hex digits
\* of n, padded with a zero to two
RECURSIVE HexDigitCount(_)
HexDigitCount(n) == IF n < 16 THEN 1 ELSE 1 + HexDigitCount(n \div 16)
Width02x(n) == IF HexDigitCount(n) < 2 THEN 2 ELSE HexDigitCount(n)

\* io_line: [ok, line]; ok = FALSE when int(p, 0) raises
io_line(port, value) ==
    LET portnum == IF port.k = "sym" /\ port.v \in DOMAIN PORT_MAP
                   THEN Val(PORT_MAP[port.v])
                   ELSE int0(port)
    IN  [ok |-> portnum.ok, line |-> IoEvent(portnum.v, value)]

\* c_loop_for_write: [ok, lines]; the default of PORT_MAP.get is evaluated
\* before the lookup, so int(port, 0) runs for every port
c_loop_for_write(port, start, end, step, expr) ==
    LET dflt == int0(port)
        portnum == IF port.k = "sym" /\ port.v \in DOMAIN PORT_MAP
                   THEN PORT_MAP[port.v] ELSE dflt.v
    IN  [ok |-> dflt.ok,
         lines |-> << [type |-> "C", n |-> 1, port |-> port, start |-> start,
                        end |-> end, step |-> step],
                      [type |-> "C", n |-> 2, start |-> start, end |-> end,
                        step |-> step],
                      [type |-> "C", n |-> 3,
                        expr |-> preprocess_verilog_literals(expr)],
                      [type |-> "C", n |-> 4, port |-> portnum],
                      [type |-> "C", n |-> 5] >>]

(***************************************************************************)
(* Input lines.                                                            *)
(***************************************************************************)
NoFor == [present |-> FALSE, var |-> "", cmp |-> "", start |-> <<>>,
          end |-> <<>>, inc |-> <<>>]
ForHdr(var, start, cmp, end, inc) ==
    [present |-> TRUE, var |-> var, cmp |-> cmp, start |-> start,
     end |-> end, inc |-> inc]

NoWrite == [present |-> FALSE, port |-> Port("", 0), expr |-> <<>>, semi |-> FALSE]
\* write_io(port, expr) followed, when semi, by ";"
WriteCall(port, expr, semi) ==
    [present |-> TRUE, port |-> port, expr |-> expr, semi |-> semi]

BlankLine ==
    [indent |-> FALSE, comment |-> FALSE, rep |-> -1, forh |-> NoFor,
     begin |-> FALSE, write |-> NoWrite, endkw |-> FALSE, junk |-> ""]

\* line.strip() == ""
IsBlank(line) ==
    /\ ~line.comment /\ line.rep < 0 /\ ~line.forh.present /\ ~line.begin
    /\ ~line.write.present /\ ~line.endkw /\ line.junk = ""

\* line.strip()
StripLine(line) == [line EXCEPT !.indent = FALSE]

\* 'end' in line, 'for' in line, 'begin' in line
ContainsEnd(line) == line.endkw \/ line.junk = "endmodule"
ContainsFor(line) == line.forh.present
ContainsBegin(line) == line.begin

\* re_comment.match(line): group(1).strip() is the text that follows the //
re_comment_match(line) == line.comment
CommentText(line) == [line EXCEPT !.indent = FALSE, !.comment = FALSE]

\* re_write.search(text) on the text of one line: the call needs its ";" and
\* the expression group (.+?) a character
re_write_search(line) ==
    /\ line.write.present /\ PortShape(line.write.port) /\ line.write.semi
    /\ line.write.expr # <<>>

\* re_repeat_inline.match(line): anchored at the first character of the line
re_repeat_inline_match(line) ==
    /\ ~line.indent /\ ~line.comment
    /\ line.rep >= 0 /\ ~line.forh.present /\ ~line.begin
    /\ re_write_search(line)

\* re.search(r'repeat\s*\(\s*(\d+)\s*\)', line)
re_repeat_search(line) == line.rep >= 0

\* re_for_header on one line: for ( i = <start> ; i < <end> ; <inc> ) begin
HeaderShape(line) ==
    /\ line.forh.present /\ line.begin
    /\ line.forh.var = "i" /\ line.forh.cmp \in {"<", "<="}

\* the groups of a matching header: after "i <" the end group takes what
\* follows, so the "=" of "i <= e" is part of it
HeaderGroups(line) ==
    [start |-> Strip(line.forh.start),
     end |-> IF line.forh.cmp = "<=" THEN <<Op("=")>> \o Strip(line.forh.end)
             ELSE Strip(line.forh.end),
     inc |-> Strip(line.forh.inc)]

\* re_for_header.search(block): the first line of the block holding a header
re_for_header_search(block) ==
    LET hits == {n \in 1..Len(block) : HeaderShape(block[n])}
    IN  IF hits = {} THEN [ok |-> FALSE, line |-> BlankLine]
        ELSE [ok |-> TRUE, line |-> block[CHOOSE n \in hits : \A m \in hits : n <= m]]

\* re.search(r'begin\s*(.*?)\s*end', block) followed by re_write.search(inner):
\* the first write call between the first begin and the first end after it
InnerWrite(block) ==
    LET begins == {n \in 1..Len(block) : ContainsBegin(block[n])}
        b == CHOOSE n \in begins : \A m \in begins : n <= m
        ends == {n \in 1..Len(block) : n >= b /\ ContainsEnd(block[n])}
        e == CHOOSE n \in ends : \A m \in ends : n <= m
        hits == {n \in b..e : re_write_search(block[n])}
    IN  IF begins = {} \/ ends = {} \/ hits = {}
        THEN NoWrite
        ELSE block[CHOOSE n \in hits : \A m \in hits : n <= m].write

(***************************************************************************)
(* parse_increment_expr: [ok, v, err]                                      *)
(***************************************************************************)
IsTok(s, n, kind, text) == n <= Len(s) /\ s[n].k = kind /\ s[n].s = text

parse_increment_expr(inc_expr) ==
    LET s == Strip(inc_expr)
        t == NoBlanks(s)
        plusEq == IsTok(t, 1, "id", "i") /\ IsTok(t, 2, "op", "+=") /\ Len(t) >= 3
        assign == /\ IsTok(t, 1, "id", "i") /\ IsTok(t, 2, "op", "=")
                  /\ IsTok(t, 3, "id", "i") /\ IsTok(t, 4, "op", "+") /\ Len(t) >= 5
        r == IF plusEq THEN safe_eval(SubSeq(t, 3, Len(t)), NoNames)
             ELSE IF assign THEN safe_eval(SubSeq(t, 5, Len(t)), NoNames)
             ELSE safe_eval(s, NoNames)
    IN  IF s # <<>> /\ IsTok(s, Len(s), "op", "++") THEN [ok |-> TRUE, v |-> 1, err |-> ""]
        ELSE [ok |-> r.ok, v |-> r.v,
              err |-> IF r.ok THEN ""
                      ELSE IF plusEq \/ assign THEN "eval" ELSE "increment"]

\* a range that takes its stop value too
RECURSIVE Range_inclusive(_, _, _)
Range_inclusive(start, stop, step) ==
    IF (step > 0 /\ start <= stop) \/ (step < 0 /\ start >= stop)
    THEN <<start>> \o Range_inclusive(start + step, stop, step)
    ELSE <<>>

\* range(start, stop, step) for step # 0
RECURSIVE Range(_, _, _)
Range(start, stop, step) ==
    IF (step > 0 /\ start < stop) \/ (step < 0 /\ start > stop)
    THEN <<start>> \o Range(start + step, stop, step)
    ELSE <<>>

\* the count computed before the compact-or-expand decision
total_iters(start_val, end_val, step_val) ==
    IF end_val > start_val /\ step_val > 0
    THEN (end_val - start_val + step_val - 1) \div step_val
    ELSE 0

\* a decision that compacts at the threshold already
UseCompact_at_threshold(total, threshold, emit_c) == total >= threshold /\ emit_c

\* line 242: the loop is written as a C loop instead of being expanded
UseCompact(total, threshold, emit_c) == total > threshold /\ emit_c

\* a test that lets every step through
IsZeroStep_never(step_val) == FALSE

\* line 235: the step the loop cannot be run with
IsZeroStep(step_val) == step_val = 0

\* the expansion loop over the values ivs: [ok, lines], lines being what was
\* appended before the loop ended or raised
RECURSIVE Expand(_, _, _)
Expand(port, body_expr, ivs) ==
    IF ivs = <<>> THEN [ok |-> TRUE, lines |-> <<>>, err |-> ""]
    ELSE LET val == safe_eval(body_expr, [x \in {"i"} |-> Head(ivs)])
             io == io_line(port, val.v)
             rest == Expand(port, body_expr, Tail(ivs))
         IN  IF ~val.ok THEN [ok |-> FALSE, lines |-> <<>>, err |-> "eval"]
             ELSE IF ~io.ok THEN [ok |-> FALSE, lines |-> <<>>, err |-> "port"]
             ELSE [ok |-> rest.ok, lines |-> <<io.line>> \o rest.lines, err |-> rest.err]

\* cnt copies of one line
RECURSIVE Copies(_, _)
Copies(cnt, line) == IF cnt <= 0 THEN <<>> ELSE <<line>> \o Copies(cnt - 1, line)

\* an accumulation that no end line stops
RECURSIVE Accumulate_past_end(_, _)
Accumulate_past_end(ls, j) ==
    IF j >= Len(ls) THEN j ELSE Accumulate_past_end(ls, j + 1)

\* the accumulation of a for block: the cursor after it, from cursor j
RECURSIVE Accumulate(_, _)
Accumulate(ls, j) ==
    IF j >= Len(ls) THEN j
    ELSE IF ContainsEnd(ls[j + 1]) THEN j + 1
    ELSE Accumulate(ls, j + 1)

\* the lookahead of a standalone repeat: the cursor after the blank lines
RECURSIVE SkipBlanks(_, _)
SkipBlanks(ls, j) ==
    IF j < Len(ls) /\ IsBlank(ls[j + 1]) THEN SkipBlanks(ls, j + 1) ELSE j

\* block.strip(): the first line loses its indentation, trailing blank lines go
RECURSIVE StripBlock(_)
StripBlock(block) ==
    IF block = <<>> THEN block
    ELSE IF IsBlank(block[Len(block)]) THEN StripBlock(SubSeq(block, 1, Len(block) - 1))
    ELSE <<StripLine(Head(block))>> \o Tail(block)

(***************************************************************************)
(* The statement of the if-chain of process_lines a line is handled by.    *)
(***************************************************************************)
Branch(line) ==
    IF IsBlank(line) THEN "blank"
    ELSE IF re_comment_match(line) THEN "comment"
    ELSE IF re_repeat_inline_match(line) THEN "repeat_inline"
    ELSE IF ContainsFor(line) /\ ContainsBegin(line) THEN "for"
    ELSE IF re_write_search(line) THEN "write"
    ELSE IF re_repeat_search(line) THEN "repeat"
    ELSE "unknown"

(***************************************************************************)
(* The for branch, lines 207-252: [i, lines, err] from cursor i0 (already  *)
(* past the trigger line); err # "" is a raised ValueError.                *)
(***************************************************************************)
ForStatement(ls, i0, emit_c, threshold) ==
    LET line == ls[i0]
        i1 == IF ContainsEnd(line) THEN i0 ELSE Accumulate(ls, i0)
        block == SubSeq(ls, i0, i1)
        hm == re_for_header_search(block)
        g == HeaderGroups(hm.line)
        wm == InnerWrite(block)
        port == wm.port
        body_expr == Strip(wm.expr)
        start_val == safe_eval(g.start, NoNames)
        end_val == safe_eval(g.end, NoNames)
        step_val == parse_increment_expr(g.inc)
        total == total_iters(start_val.v, end_val.v, step_val.v)
        c == c_loop_for_write(port, start_val.v, end_val.v, step_val.v, body_expr)
        x == Expand(port, body_expr, Range(start_val.v, end_val.v, step_val.v))
        R(lns, e) == [i |-> i1, lines |-> lns, err |-> e]
    IN  IF ~hm.ok THEN R(<<info_line(<<StripLine(line)>>)>>, "")
        ELSE IF ~wm.present THEN R(<<info_line(StripBlock(block))>>, "")
        ELSE IF ~start_val.ok \/ ~end_val.ok THEN R(<<>>, "eval")
        ELSE IF ~step_val.ok THEN R(<<>>, step_val.err)
        ELSE IF IsZeroStep(step_val.v) THEN R(<<>>, "zero_step")
        ELSE IF UseCompact(total, threshold, emit_c)
             THEN (IF c.ok THEN R(c.lines, "") ELSE R(<<>>, "port"))
        ELSE R(x.lines, x.err)

(***************************************************************************)
(* The inputs the model is run on.                                         *)
(***************************************************************************)
Ln(indent, comment, rep, forh, begin, write, endkw, junk) ==
    [indent |-> indent, comment |-> comment, rep |-> rep, forh |-> forh,
     begin |-> begin, write |-> write, endkw |-> endkw, junk |-> junk]

E_i == <<Id("i")>>
E_i254 == <<Id("i"), Op("+"), Num(254)>>
E_7 == <<Num(7)>>
E_j == <<Id("j")>>
E_lit == <<SizedLit(12, "h", <<"1", "2", "C">>)>>

E_bin(a, op, b) == <<Num(a), Op(op), Num(b)>>
E_neg(a, op, b) == <<Op("-"), Num(a), Op(op), Num(b)>>
\* 4'hFF, and i + 4'hFF ;
E_hFF == <<SizedLit(4, "h", <<"F", "F">>)>>
E_i_hFF == <<Id("i"), Op("+"), SizedLit(4, "h", <<"F", "F">>), Ws, Semi>>
\* i + 8'b10
E_i_b10 == <<Id("i"), Op("+"), SizedLit(8, "b", <<"1", "0">>)>>
\* 1'd2
E_d2 == <<SizedLit(1, "d", <<"2">>)>>

BodyExprs == {E_i, E_7, E_j, E_i_hFF, E_i_b10}
ValueExprs == {E_7, E_j, E_lit}

\* one expression per operator, and operators side by side
OperatorExprs ==
    { E_bin(7, "+", 5), E_bin(5, "-", 7), E_bin(7, "*", 5), E_bin(10, "//", 3),
      E_bin(10, "/", 3), E_bin(10, "%", 3), E_bin(1, "<<", 3), E_bin(16, ">>", 2),
      E_bin(6, "|", 9), E_bin(6, "&", 3), E_bin(6, "^", 3), E_bin(2, "**", 3),
      E_bin(1, "@", 2), E_bin(7, "/", 0), E_bin(7, "%", 0),
      E_neg(7, "//", 2), E_neg(7, "/", 2), E_neg(7, "%", 3), E_neg(16, ">>", 2),
      <<Num(1), Op("<<"), Op("-"), Num(1)>>,
      <<Op("-"), Num(7)>>, <<Op("+"), Num(7)>>, <<Op("~"), Num(5)>>,
      <<Op("-"), Op("-"), Num(3)>>,
      <<Num(1), Op("+"), Num(2), Op("*"), Num(3)>>,
      <<Op("("), Num(1), Op("+"), Num(2), Op(")"), Op("*"), Num(3)>>,
      <<Num(1), Op("|"), Num(6), Op("&"), Num(3), Op("^"), Num(5)>> }

\* what is no arithmetic over integers and names: a call, a comparison, an
\* attribute, a collection, a conditional, constants that are no integers
ConstructExprs ==
    { <<Id("f"), Op("("), Num(1), Op(")")>>,
      E_bin(1, "<", 2),
      <<Id("i"), Op("."), Id("real")>>,
      <<Op("["), Num(1), Op("]")>>,
      <<Num(1), Id("if"), Num(1), Id("else"), Num(2)>>,
      <<Other("1.5")>>, <<Other("'a'")>>,
      <<Id("True")>>, <<Id("False")>>, <<Id("None")>>,
      <<Num(1), Num(2)>> }

\* expression text without an expression in it, and values that mask to 0
BlankExprs ==
    { <<Ws>>, <<Semi>>, <<Ws, Semi>>, <<Num(7), Semi>>, <<Num(0)>>, <<Num(256)>>,
      <<Num(511)>> }

\* Verilog literals: 4'hFF, 16'd1_000, 'd08, 'hfF_, 8'h_F, 'h12C, 4'hFF + 1,
\* and texts the patterns leave alone: 8'd1F, 8'b10, 8'hFG
LiteralExprs ==
    { E_hFF,
      <<SizedLit(16, "d", <<"1", "_", "0", "0", "0">>)>>,
      <<UnsizedLit("d", <<"0", "8">>)>>,
      <<UnsizedLit("h", <<"f", "F", "_">>)>>,
      <<SizedLit(8, "h", <<"_", "F">>)>>,
      <<UnsizedLit("h", <<"1", "2", "C">>)>>,
      E_hFF \o <<Op("+"), Num(1)>>,
      <<SizedLit(8, "d", <<"1", "F">>)>>,
      <<SizedLit(8, "b", <<"1", "0">>)>>,
      <<SizedLit(8, "h", <<"F", "G">>)>> }

ExtraExprs == OperatorExprs \cup ConstructExprs \cup BlankExprs \cup LiteralExprs

P_sym == Port("sym", 1)
P_hex == Port("hex", 138)
P_dec0 == Port("dec0", 8)
P_name == Port("name", 0)
\* 0x100, 0x12345 and 65536
WidePorts == {Port("hex", 256), Port("hex", 74565), Port("dec", 65536)}

AcceptedPorts == {P_sym, P_hex, P_dec0}

Incs ==
    { <<Id("i"), Op("++")>>,
      <<Id("i"), Op("+="), Num(1)>>,
      <<Id("i"), Op("+="), Num(2)>>,
      <<Id("i"), Op("="), Id("i"), Op("+"), Num(1)>>,
      <<Id("i"), Op("+="), Op("-"), Num(1)>>,
      <<Id("i"), Op("+="), Num(0)>>,
      <<Id("i"), Op("="), Id("i"), Op("+"), Num(0)>>,
      <<Id("j"), Op("++")>>,
      <<Num(2)>>,
      <<Id("i"), Op("="), Id("i"), Op("-"), Num(1)>> }

WriteLine(indent, port, expr) ==
    Ln(indent, FALSE, -1, NoFor, FALSE, WriteCall(port, expr, TRUE), FALSE, "")
CommentLine(write) == Ln(FALSE, TRUE, -1, NoFor, FALSE, write, FALSE, "note")
EndLine == Ln(FALSE, FALSE, -1, NoFor, FALSE, NoWrite, TRUE, "")
JunkLine(text) == Ln(FALSE, FALSE, -1, NoFor, FALSE, NoWrite, FALSE, text)
RepeatLine(indent, cnt, write) ==
    Ln(indent, FALSE, cnt, NoFor, FALSE, write, FALSE, "")

\* a for block on one line, or on three
ForBlockLines(hdr, begin, write, multi) ==
    IF multi
    THEN << Ln(FALSE, FALSE, -1, hdr, begin, NoWrite, FALSE, ""),
            Ln(TRUE, FALSE, -1, NoFor, FALSE, write, FALSE, ""),
            EndLine >>
    ELSE << Ln(FALSE, FALSE, -1, hdr, begin, write, TRUE, "") >>

NumHdr(var, a, cmp, b, inc) == ForHdr(var, <<Num(a)>>, cmp, <<Num(b)>>, inc)

LoopFrags ==
    \* every bound and increment, around one body
    { ForBlockLines(NumHdr("i", a, "<", b, inc), TRUE,
                    WriteCall(P_sym, E_i254, TRUE), multi) :
        a \in 0..MaxBound, b \in 0..MaxBound, inc \in Incs, multi \in BOOLEAN }
    \cup
    \* every port and body, around one header
    { ForBlockLines(NumHdr("i", a, "<", MaxBound, <<Id("i"), Op("++")>>), TRUE,
                    WriteCall(port, expr, TRUE), multi) :
        a \in {0, MaxBound}, port \in AcceptedPorts, expr \in BodyExprs,
        multi \in BOOLEAN }
    \cup
    \* headers and bodies the patterns do not match, and bounds that do not evaluate
    { ForBlockLines(hdr, TRUE, write, multi) :
        hdr \in { NumHdr("j", 0, "<", 2, <<Id("j"), Op("++")>>),
                  NumHdr("i", 0, ">", 2, <<Id("i"), Op("++")>>),
                  NumHdr("i", 0, "<=", 2, <<Id("i"), Op("++")>>),
                  ForHdr("i", E_i, "<", E_7, <<Id("i"), Op("++")>>),
                  ForHdr("i", <<Num(0)>>, "<", E_j, <<Id("i"), Op("+="), Num(0)>>),
                  ForHdr("i", <<Num(0)>>, "<", E_d2, <<Id("i"), Op("++")>>),
                  NumHdr("i", 0, "<", 2, <<Id("i"), Op("+="), Num(0)>>),
                  NumHdr("i", 0, "<", 2, <<Id("i"), Op("++")>>) },
        write \in { WriteCall(P_sym, E_i, TRUE), WriteCall(P_sym, E_i, FALSE),
                    WriteCall(P_name, E_i, TRUE), NoWrite },
        multi \in BOOLEAN }
    \cup
    \* a block the input ends in, and a header without its begin
    { << Ln(FALSE, FALSE, -1, NumHdr("i", 0, "<", 2, <<Id("i"), Op("++")>>), TRUE,
            NoWrite, FALSE, ""),
         WriteLine(TRUE, P_sym, E_i) >>,
      << Ln(FALSE, FALSE, -1, NumHdr("i", 0, "<", 2, <<Id("i"), Op("++")>>), FALSE,
            NoWrite, FALSE, ""),
         WriteLine(TRUE, P_sym, E_7), EndLine >> }

RepeatInlineFrags ==
    { << RepeatLine(indent, cnt, WriteCall(port, expr, TRUE)) >> :
        indent \in BOOLEAN, cnt \in 0..MaxCount,
        port \in AcceptedPorts \cup {P_name}, expr \in ValueExprs }

Blanks(n) == [m \in 1..n |-> BlankLine]

RepeatFrags ==
    { <<RepeatLine(indent, cnt, NoWrite)>> \o Blanks(nb) \o follow :
        indent \in BOOLEAN, cnt \in 0..MaxCount, nb \in 0..MaxBlank,
        follow \in { <<WriteLine(ind2, port, expr)>> :
                       ind2 \in BOOLEAN, port \in {P_sym, P_dec0}, expr \in ValueExprs }
                   \cup { <<CommentLine(NoWrite)>>, <<JunkLine("foo")>>, <<EndLine>>,
                          <<WriteLine(FALSE, P_name, E_7)>>, <<>> } }

SingleFrags ==
    { <<WriteLine(indent, port, expr)>> :
        indent \in BOOLEAN, port \in AcceptedPorts \cup {P_name},
        expr \in ValueExprs \cup {E_i} }
    \cup { <<WriteLine(FALSE, P_sym, expr)>> : expr \in ExtraExprs }
    \cup { <<WriteLine(FALSE, port, E_7)>> : port \in WidePorts }
    \cup { <<WriteLine(FALSE, P_sym, <<>>)>> }
    \cup { <<CommentLine(NoWrite)>>, <<CommentLine(WriteCall(P_sym, E_7, TRUE))>>,
           <<JunkLine("foo")>>, <<JunkLine("endmodule")>>, <<EndLine>>,
           <<BlankLine>>, <<>> }

MainFrags == LoopFrags \cup RepeatInlineFrags \cup RepeatFrags \cup SingleFrags

PreFrags == { <<>>, <<WriteLine(FALSE, P_hex, E_7)>>, <<CommentLine(NoWrite)>> }
PostFrags == { <<>>, <<WriteLine(FALSE, P_hex, E_lit)>>, <<JunkLine("foo")>>,
               <<BlankLine, WriteLine(TRUE, P_sym, E_7)>> }

Programs == { pre \o main \o post :
                pre \in PreFrags, main \in MainFrags, post \in PostFrags }

(***************************************************************************)
(* The state: the arguments of process_lines, its locals i and out, where  *)
(* the run stands (pc), the error it raised, what main printed, the exit   *)
(* status of the process (-1 while it runs), and the statement the last    *)
(* iteration of the scan handled (last: its branch, the cursor and the     *)
(* length of out before it).                                               *)
(***************************************************************************)
VARIABLES lines, emit_c_for_large, expand_threshold, i, out, pc, err, stdout,
          exit_status, last

\* the calls of process_lines made so far on these arguments, and what the
\* first of them ended with once a second one has begun
VARIABLES calls, first

callvars == <<calls, first>>

\* the command line main was started with (sys.argv[1:]); empty where
\* process_lines is entered directly
VARIABLES argv

cmdvars == <<argv>>

\* the state of a run of convert_testpattern.py or generate_testpattern_csv.py
\* (prog): what it was started with (input, frame_spec), where it stands
\* (tp_pc, the number nread of lines read so far), the locals of main
\* (address, control_low, last_time, printed_header, printed_any), what it
\* printed, the value it
\* returned (rc), and the line its last iteration read (tp_last, with the
\* locals as they were before it)
VARIABLES prog, input, frame_spec, tp_pc, nread, address, control_low, last_time,
          printed_header, printed_any, printed, rc, tp_last

tpvars == <<prog, input, frame_spec, tp_pc, nread, address, control_low, last_time,
            printed_header, printed_any, printed, rc, tp_last>>

\* control_low = None, line 144
None == -1

NoLine == [type |-> "none"]
NoSpec == [given |-> FALSE, ranges |-> <<>>]

\* no test pattern program runs
TPIdle ==
    /\ prog = "none"
    /\ input = "none"
    /\ frame_spec = NoSpec
    /\ tp_pc = "idle"
    /\ nread = 0
    /\ address = 0
    /\ control_low = None
    /\ last_time = 0
    /\ printed_header = FALSE
    /\ printed_any = FALSE
    /\ printed = <<>>
    /\ rc = -1
    /\ tp_last = [line |-> NoLine, is_match |-> FALSE, address |-> 0,
                  control_low |-> None, last_time |-> 0, nprinted |-> 0]

vars == <<lines, emit_c_for_large, expand_threshold, i, out, pc, err, stdout,
          exit_status, last, callvars, cmdvars, tpvars>>

\* process_lines is entered with its three arguments; expand_threshold is an
\* argument like the others (main passes 200000), drawn here from small values
\* so that loops below, at and above it occur
Init ==
    /\ lines \in Programs
    /\ emit_c_for_large \in BOOLEAN
    /\ expand_threshold \in 1..MaxThreshold
    /\ i = 0
    /\ out = <<>>
    /\ pc = "scan"
    /\ err = ""
    /\ stdout = <<>>
    /\ exit_status = -1
    /\ last = [kind |-> "none", from |-> 0, nout |-> 0]
    /\ calls = 1
    /\ first = [out |-> <<>>, err |-> "", pc |-> "none"]
    /\ argv = <<>>
    /\ TPIdle

\* new lines put in front of the old ones
extend_in_front(o, lns) == lns \o o

\* out.append / out.extend
extend(o, lns) == o \o lns

\* an iteration that prints every line as it is put out
Iterate_printing(kind, newi, lns, e) ==
    /\ i' = newi
    /\ out' = extend(out, lns)
    /\ pc' = IF e = "" THEN "scan" ELSE "raised"
    /\ err' = e
    /\ exit_status' = IF e = "" THEN exit_status ELSE 1
    /\ last' = [kind |-> kind, from |-> i, nout |-> Len(out)]
    /\ stdout' = extend(out, lns)
    /\ UNCHANGED <<lines, emit_c_for_large, expand_threshold, callvars, cmdvars, tpvars>>

\* one iteration of the while loop ends: the cursor is newi, lns were put out,
\* and e # "" is the ValueError that ended the run: nothing catches it, so the
\* process ends with the traceback and exit status 1
Iterate(kind, newi, lns, e) ==
    /\ i' = newi
    /\ out' = extend(out, lns)
    /\ pc' = IF e = "" THEN "scan" ELSE "raised"
    /\ err' = e
    /\ exit_status' = IF e = "" THEN exit_status ELSE 1
    /\ last' = [kind |-> kind, from |-> i, nout |-> Len(out)]
    /\ UNCHANGED <<lines, emit_c_for_large, expand_threshold, stdout, callvars, cmdvars, tpvars>>

Scanning(kind) == pc = "scan" /\ i < Len(lines) /\ Branch(lines[i + 1]) = kind

\* a blank line that is put out like a line of unknown shape
SkipBlank_as_unknown ==
    /\ Scanning("blank")
    /\ Iterate("blank", i + 1, <<info_line(<<StripLine(lines[i + 1])>>)>>, "")

SkipBlank == Scanning("blank") /\ Iterate("blank", i + 1, <<>>, "")

Comment ==
    /\ Scanning("comment")
    /\ Iterate("comment", i + 1, <<info_line(<<CommentText(lines[i + 1])>>)>>, "")

\* lines 199-204: the expression is evaluated once, before the loop
InlineWrites(cnt, port, expr) ==
    LET val == safe_eval(expr, NoNames)
        io == io_line(port, val.v)
    IN  IF ~val.ok THEN [lines |-> <<>>, err |-> "eval"]
        ELSE IF cnt > 0 /\ ~io.ok THEN [lines |-> <<>>, err |-> "port"]
        ELSE [lines |-> Copies(cnt, io.line), err |-> ""]

RepeatInline ==
    /\ Scanning("repeat_inline")
    /\ LET line == lines[i + 1]
           r == InlineWrites(line.rep, line.write.port, line.write.expr)
       IN  Iterate("repeat_inline", i + 1, r.lines, r.err)

ForBlock ==
    /\ Scanning("for")
    /\ LET r == ForStatement(lines, i + 1, emit_c_for_large, expand_threshold)
       IN  Iterate("for", r.i, r.lines, r.err)

BareWrite ==
    /\ Scanning("write")
    /\ LET line == lines[i + 1]
           val == safe_eval(line.write.expr, NoNames)
           io == io_line(line.write.port, val.v)
       IN  IF ~val.ok THEN Iterate("write", i + 1, <<>>, "eval")
           ELSE IF ~io.ok THEN Iterate("write", i + 1, <<>>, "port")
           ELSE Iterate("write", i + 1, <<io.line>>, "")

\* the loop of lines 274-276: safe_eval runs once per repetition
RepeatWrites(cnt, port, expr) ==
    LET val == safe_eval(expr, NoNames)
        io == io_line(port, val.v)
    IN  IF cnt <= 0 THEN [lines |-> <<>>, err |-> ""]
        ELSE IF ~val.ok THEN [lines |-> <<>>, err |-> "eval"]
        ELSE IF ~io.ok THEN [lines |-> <<>>, err |-> "port"]
        ELSE [lines |-> Copies(cnt, io.line), err |-> ""]

StandaloneRepeat ==
    /\ Scanning("repeat")
    /\ LET line == lines[i + 1]
           j == SkipBlanks(lines, i + 1)
           nextline == lines[j + 1]
           r == RepeatWrites(line.rep, nextline.write.port, nextline.write.expr)
       IN  IF j >= Len(lines)
           THEN Iterate("repeat", j, <<info_line(<<StripLine(line)>>)>>, "")
           ELSE IF re_write_search(nextline)
           THEN Iterate("repeat", j + 1, r.lines, r.err)
           ELSE Iterate("repeat", j + 1, <<info_line(<<StripLine(line)>>)>>, "")

\* a line of unknown shape that is passed over without a word
Unknown_silent ==
    /\ Scanning("unknown")
    /\ Iterate("unknown", i + 1, <<>>, "")

Unknown ==
    /\ Scanning("unknown")
    /\ Iterate("unknown", i + 1, <<info_line(<<StripLine(lines[i + 1])>>)>>, "")

\* the while loop ends: return out
Return ==
    /\ pc = "scan" /\ i >= Len(lines)
    /\ pc' = "returned"
    /\ UNCHANGED <<lines, emit_c_for_large, expand_threshold, i, out, err, stdout,
                   exit_status, last, callvars, cmdvars, tpvars>>

\* main prints what process_lines returned and the process ends
PrintLines ==
    /\ pc = "returned"
    /\ stdout' = out
    /\ pc' = "done"
    /\ exit_status' = 0
    /\ UNCHANGED <<lines, emit_c_for_large, expand_threshold, i, out, err, last,
                   callvars, cmdvars, tpvars>>

Next ==
    \/ SkipBlank
    \/ Comment
    \/ RepeatInline
    \/ ForBlock
    \/ BareWrite
    \/ StandaloneRepeat
    \/ Unknown
    \/ Return
    \/ PrintLines

Spec == Init /\ [][Next]_vars

(***************************************************************************)
(* The same arguments handed to process_lines a second time, after the     *)
(* first call returned or raised: the function starts from its own fresh   *)
(* locals (lines 186-187); what the first call ended with is kept aside.   *)
(***************************************************************************)
\* a second call that finds the list of the first call still filled
CallAgain_keeping_out ==
    /\ pc \in {"done", "raised"} /\ calls = 1
    /\ calls' = 2
    /\ first' = [out |-> out, err |-> err, pc |-> pc]
    /\ i' = 0
    /\ out' = out
    /\ pc' = "scan"
    /\ err' = ""
    /\ stdout' = <<>>
    /\ exit_status' = -1
    /\ last' = [kind |-> "none", from |-> 0, nout |-> 0]
    /\ UNCHANGED <<lines, emit_c_for_large, expand_threshold, cmdvars, tpvars>>

CallAgain ==
    /\ pc \in {"done", "raised"} /\ calls = 1
    /\ calls' = 2
    /\ first' = [out |-> out, err |-> err, pc |-> pc]
    /\ i' = 0
    /\ out' = <<>>
    /\ pc' = "scan"
    /\ err' = ""
    /\ stdout' = <<>>
    /\ exit_status' = -1
    /\ last' = [kind |-> "none", from |-> 0, nout |-> 0]
    /\ UNCHANGED <<lines, emit_c_for_large, expand_threshold, cmdvars, tpvars>>

\* the programs run twice: a statement and what follows it
ProgramsTwice == { main \o post : main \in MainFrags, post \in PostFrags }

InitTwice ==
    /\ lines \in ProgramsTwice
    /\ emit_c_for_large \in BOOLEAN
    /\ expand_threshold \in 1..MaxThreshold
    /\ i = 0
    /\ out = <<>>
    /\ pc = "scan"
    /\ err = ""
    /\ stdout = <<>>
    /\ exit_status = -1
    /\ last = [kind |-> "none", from |-> 0, nout |-> 0]
    /\ calls = 1
    /\ first = [out |-> <<>>, err |-> "", pc |-> "none"]
    /\ argv = <<>>
    /\ TPIdle

NextTwice == Next \/ CallAgain

SpecTwice == InitTwice /\ [][NextTwice]_vars

(***************************************************************************)
(* main, lines 287-316: the command line is taken apart, the input is      *)
(* read, process_lines is called with the threshold main writes out, and   *)
(* what it returned is printed.                                            *)
(***************************************************************************)
MaxArgs == 3

\* the threshold main passes, line 313
MainThreshold == 200000

\* one argument of the command line: its text and, where it holds a number,
\* the number
Arg(text) == [s |-> text, v |-> 0]
NumArg(text, n) == [s |-> text, v |-> n]

ArgTokens ==
    { Arg("--emit-c"), Arg("-h"), Arg("--help"), Arg("in.v"),
      Arg("--threshold"), NumArg("", MaxThreshold),
      NumArg("--threshold=", MaxThreshold) }

RECURSIVE ArgListsOf(_)
ArgListsOf(n) ==
    IF n = 0 THEN {<<>>}
    ELSE ArgListsOf(n - 1)
         \cup { <<a>> \o l : a \in ArgTokens, l \in { m \in ArgListsOf(n - 1) : Len(m) = n - 1 } }

ArgLists == ArgListsOf(MaxArgs)

\* lines 293-304: [usage, emit_c, infile]; infile is <<>> or holds the name
main_args(args) ==
    LET help == args # <<>> /\ args[1].s \in {"-h", "--help"}
        emit_c == args # <<>> /\ args[1].s = "--emit-c"
        rest == IF emit_c THEN Tail(args) ELSE args
    IN  [usage |-> help \/ Len(rest) > 1, emit_c |-> emit_c, infile |-> rest]

\* usage_and_exit: two lines are printed and the process ends with status 2
usage_and_exit ==
    /\ stdout' = <<[type |-> "USAGE", n |-> 1], [type |-> "USAGE", n |-> 2]>>
    /\ pc' = "usage"
    /\ exit_status' = 2
    /\ UNCHANGED <<emit_c_for_large, expand_threshold, err>>

\* main up to the call of process_lines; a file that is named may be missing,
\* and open() then raises (nothing catches it: exit status 1)
main ==
    /\ pc = "main"
    /\ LET r == main_args(argv)
       IN  IF r.usage THEN usage_and_exit
           ELSE \E found \in BOOLEAN :
                  IF r.infile # <<>> /\ ~found
                  THEN /\ pc' = "raised"
                       /\ err' = "open"
                       /\ exit_status' = 1
                       /\ UNCHANGED <<emit_c_for_large, expand_threshold, stdout>>
                  ELSE /\ emit_c_for_large' = r.emit_c
                       /\ expand_threshold' = MainThreshold
                       /\ pc' = "scan"
                       /\ UNCHANGED <<err, stdout, exit_status>>
    /\ UNCHANGED <<lines, i, out, last, callvars, cmdvars, tpvars>>

\* what the input holds: every kind of statement with a loop of MaxBound
\* iterations, a write that raises, and nothing
MainPrograms ==
    { << BlankLine, CommentLine(NoWrite),
         RepeatLine(FALSE, MaxCount, WriteCall(P_sym, E_7, TRUE)) >>
      \o ForBlockLines(NumHdr("i", 0, "<", MaxBound, <<Id("i"), Op("++")>>), TRUE,
                       WriteCall(P_sym, E_i, TRUE), TRUE)
      \o << WriteLine(FALSE, P_hex, E_7), RepeatLine(FALSE, 1, NoWrite),
            WriteLine(TRUE, P_sym, E_7), JunkLine("foo") >>,
      ForBlockLines(NumHdr("i", 0, "<", MaxBound, <<Id("i"), Op("++")>>), TRUE,
                    WriteCall(P_sym, E_i, TRUE), FALSE),
      << WriteLine(FALSE, P_name, E_7) >>,
      << >> }

InitMain ==
    /\ argv \in ArgLists
    /\ lines \in MainPrograms
    /\ emit_c_for_large = FALSE
    /\ expand_threshold = MainThreshold
    /\ i = 0
    /\ out = <<>>
    /\ pc = "main"
    /\ err = ""
    /\ stdout = <<>>
    /\ exit_status = -1
    /\ last = [kind |-> "none", from |-> 0, nout |-> 0]
    /\ calls = 1
    /\ first = [out |-> <<>>, err |-> "", pc |-> "none"]
    /\ TPIdle

NextMain == main \/ Next

SpecMain == InitMain /\ [][NextMain]_vars

(***************************************************************************)
(* convert_testpattern.py and generate_testpattern_csv.py: a log is read   *)
(* line by line; the lines of the frames the frame filter passes are       *)
(* turned into C++ statements (convert_testpattern) or CSV lines           *)
(* (generate_testpattern_csv).                                             *)
(***************************************************************************)
MaxLog == 3
MaxFrame == 3
MaxTime == 1

DATA_PORTS == {136, 152}
ADDR_PORTS == {137, 153}

\* format_hex: the number whose digits are printed, value & 0xFFFF
format_hex(value) == value % 65536

\* the lines of a log: the three kinds the patterns match, with the numbers of
\* their fields (tz: the digits of the time begin with a zero that int(s, 0)
\* does not take), the scheduleDisplayStart line, and any other line
WriteLog(frame, time, port, value) ==
    [type |-> "write", frame |-> frame, time |-> time, tz |-> FALSE,
     port |-> port, value |-> value]
VSyncLog(frame, time) == [type |-> "vsync", frame |-> frame, time |-> time, tz |-> FALSE]
ChangeLog(frame, time) ==
    [type |-> "change", frame |-> frame, time |-> time, tz |-> FALSE,
     reg |-> 7, val |-> 1]
ScheduleLog == [type |-> "schedule"]
OtherLog == [type |-> "other"]

LogLines ==
    { WriteLog(f, MaxTime, 136, 18) : f \in 1..MaxFrame }
    \cup { WriteLog(1, 0, 136, 18), WriteLog(1, 0, 137, 52), WriteLog(2, MaxTime, 153, 511),
           WriteLog(2, 0, 152, 18), WriteLog(1, 0, 119, 18),
           [WriteLog(1, MaxTime, 136, 18) EXCEPT !.tz = TRUE] }
    \cup { VSyncLog(1, t) : t \in {0, MaxTime} }
    \cup { ChangeLog(1, t) : t \in {0, MaxTime} }
    \cup { ScheduleLog, OtherLog }

\* line.startswith(SCHEDULE_DISPLAY_PREFIX)
IsScheduleDisplayStart(line) == line.type = "schedule"

\* parse_line: the event of a line one of the patterns matches and whose
\* numbers int(s, 0) takes; None (NoLine) for every other line
parse_line(line) ==
    IF line.type \in {"write", "vsync", "change"} /\ ~line.tz THEN line ELSE NoLine

\* a frame filter: none given, or the ranges lo-hi of its comma list
Range1(lo, hi) == [lo |-> lo, hi |-> hi]
GivenSpec(ranges) == [given |-> TRUE, ranges |-> ranges]

FrameSpecs ==
    { NoSpec,
      GivenSpec(<<Range1(1, 1)>>),
      GivenSpec(<<Range1(1, 1), Range1(MaxFrame, MaxFrame)>>),
      GivenSpec(<<Range1(2, MaxFrame)>>),
      GivenSpec(<<Range1(2, 1)>>) }

\* parse_frame_spec raises ValueError for a range with lo > hi
parse_frame_spec_raises(spec) ==
    spec.given /\ \E k \in 1..Len(spec.ranges) : spec.ranges[k].lo > spec.ranges[k].hi

\* the matcher parse_frame_spec returns
frame_match(spec, frame) ==
    \/ ~spec.given
    \/ \E k \in 1..Len(spec.ranges) :
          spec.ranges[k].lo <= frame /\ frame <= spec.ranges[k].hi

\* a delta that may be negative
Delta_signed(cur_time, since) == cur_time - since

\* lines 163-166: the time passed since the last event, never negative
Delta(cur_time, since) == IF cur_time - since < 0 THEN 0 ELSE cur_time - since

\* line 170: emu-cycles to wrapper main cycles
step_cycles_count(delta) == delta * 4

\* an address composed with the low byte in the high place
new_addr_swapped(value, low) == (low * 256 + (value % 256)) % 65536

\* lines 219-220: ((high << 8) | control_low) & 0xFFFF with high = value & 0xFF
new_addr(value, low) == (((value % 256) * 256) + low) % 65536

\* line 232: (address + 1) & 0xFFFF
next_address(a) == (a + 1) % 65536

\* the lines convert_testpattern prints
CommentOut(k) == [k |-> "comment", v |-> k]
InitOut(a) == [k |-> "init", v |-> format_hex(a)]
CoutOut(parsed) == [k |-> "cout", ev |-> parsed]
StepOut(cycles) == [k |-> "step_cycles", v |-> cycles]
SetOut(a, high, low) ==
    [k |-> "set", v |-> format_hex(a), high |-> format_hex(high), low |-> format_hex(low)]
WriteOut(value) == [k |-> "write_io", v |-> format_hex(value)]
IncOut == [k |-> "inc"]
UnhandledOut(parsed) == [k |-> "unhandled", ev |-> parsed]

\* the lines generate_testpattern_csv prints
InfoCsv(parsed) == [k |-> "INFO", ev |-> parsed]
CycleCsv(cycles) == [k |-> "CYCLE", v |-> cycles]
IoCsv(parsed) == [k |-> "IO", port |-> parsed.port, value |-> parsed.value]

\* lines 173-177: the header, printed with the first line of a matching frame
Header(is_match) ==
    IF is_match /\ ~printed_header
    THEN <<CommentOut(1), CommentOut(2), InitOut(address)>>
    ELSE <<>>

\* main up to the loop over the file, lines 118-145 (110-132 in
\* generate_testpattern_csv): usage without an input file, a frame filter that
\* does not parse, a file that does not exist
Start(p) ==
    /\ prog = p /\ tp_pc = "start"
    /\ IF input = "none" \/ parse_frame_spec_raises(frame_spec)
       THEN rc' = 2 /\ tp_pc' = "exit"
       ELSE IF input = "missing"
       THEN rc' = 1 /\ tp_pc' = "exit"
       ELSE rc' = rc /\ tp_pc' = "read"
    /\ address' = 0
    /\ control_low' = None
    /\ last_time' = 0
    /\ printed_header' = FALSE
    /\ printed_any' = FALSE
    /\ UNCHANGED <<prog, input, frame_spec, nread, printed, tp_last>>
    /\ UNCHANGED <<lines, emit_c_for_large, expand_threshold, i, out, pc, err,
                   stdout, exit_status, last, callvars, cmdvars>>

StartConvert == Start("convert_testpattern")
StartGenerate == Start("generate_testpattern_csv")

\* the loop over the file takes its next line
Reads(p, line) == prog = p /\ tp_pc = "read" /\ nread < MaxLog /\ line \in LogLines

\* line was read, is_match is what the filter said of its frame, lns is printed
Read(line, is_match, lns) ==
    /\ nread' = nread + 1
    /\ printed' = printed \o lns
    /\ tp_last' = [line |-> line, is_match |-> is_match, address |-> address,
                   control_low |-> control_low, last_time |-> last_time,
                   nprinted |-> Len(printed)]
    /\ UNCHANGED <<prog, input, frame_spec, tp_pc, rc>>
    /\ UNCHANGED <<lines, emit_c_for_large, expand_threshold, i, out, pc, err,
                   stdout, exit_status, last, callvars, cmdvars>>

\* what follows the header for an event of a matching frame, lines 205-210 and
\* 189-195: the debug line, and the step when time has passed
Debug(parsed, is_match) ==
    IF ~is_match THEN <<>>
    ELSE <<CoutOut(parsed)>>
         \o (IF Delta(parsed.time, last_time) > 0
             THEN <<StepOut(step_cycles_count(Delta(parsed.time, last_time)))>>
             ELSE <<>>)

(* convert_testpattern.py, lines 148-237 *)
ConvertScheduleDisplayStart ==
    \E line \in LogLines :
        /\ Reads("convert_testpattern", line)
        /\ IsScheduleDisplayStart(line)
        /\ last_time' = 0
        /\ Read(line, FALSE, <<>>)
        /\ UNCHANGED <<address, control_low, printed_header, printed_any>>

ConvertUnparsed ==
    \E line \in LogLines :
        /\ Reads("convert_testpattern", line)
        /\ ~IsScheduleDisplayStart(line)
        /\ parse_line(line) = NoLine
        /\ Read(line, FALSE, <<>>)
        /\ UNCHANGED <<address, control_low, last_time, printed_header, printed_any>>

\* an event was parsed: what every kind of event does, lines 160-177
ConvertParsed(line, type) ==
    /\ Reads("convert_testpattern", line)
    /\ ~IsScheduleDisplayStart(line)
    /\ parse_line(line) # NoLine
    /\ parse_line(line).type = type
    /\ last_time' = parse_line(line).time
    /\ printed_header' = (printed_header \/ frame_match(frame_spec, parse_line(line).frame))
    /\ printed_any' = (printed_any \/ frame_match(frame_spec, parse_line(line).frame))

ConvertVSync ==
    \E line \in LogLines :
        /\ ConvertParsed(line, "vsync")
        /\ LET parsed == parse_line(line)
               is_match == frame_match(frame_spec, parsed.frame)
               cycles == step_cycles_count(Delta(parsed.time, last_time))
           IN  Read(line, is_match,
                    Header(is_match)
                    \o (IF is_match THEN <<CoutOut(parsed), StepOut(cycles)>> ELSE <<>>))
        /\ UNCHANGED <<address, control_low>>

ConvertChange ==
    \E line \in LogLines :
        /\ ConvertParsed(line, "change")
        /\ LET parsed == parse_line(line)
               is_match == frame_match(frame_spec, parsed.frame)
           IN  Read(line, is_match, Header(is_match) \o Debug(parsed, is_match))
        /\ UNCHANGED <<address, control_low>>

\* lines 213-225
ConvertControlWrite ==
    \E line \in LogLines :
        /\ ConvertParsed(line, "write")
        /\ line.port \in ADDR_PORTS
        /\ LET parsed == parse_line(line)
               is_match == frame_match(frame_spec, parsed.frame)
               a == new_addr(parsed.value, control_low)
           IN  IF control_low = None
               THEN /\ control_low' = parsed.value % 256
                    /\ address' = address
                    /\ Read(line, is_match, Header(is_match) \o Debug(parsed, is_match))
               ELSE /\ control_low' = None
                    /\ address' = a
                    /\ Read(line, is_match,
                            Header(is_match) \o Debug(parsed, is_match)
                            \o (IF is_match
                                THEN <<SetOut(a, parsed.value % 256, control_low)>>
                                ELSE <<>>))

\* lines 228-233
ConvertDataWrite ==
    \E line \in LogLines :
        /\ ConvertParsed(line, "write")
        /\ line.port \notin ADDR_PORTS /\ line.port \in DATA_PORTS
        /\ LET parsed == parse_line(line)
               is_match == frame_match(frame_spec, parsed.frame)
           IN  Read(line, is_match,
                    Header(is_match) \o Debug(parsed, is_match)
                    \o (IF is_match THEN <<WriteOut(parsed.value), IncOut>> ELSE <<>>))
        /\ address' = next_address(address)
        /\ UNCHANGED control_low

\* lines 236-237
ConvertUnknownPort ==
    \E line \in LogLines :
        /\ ConvertParsed(line, "write")
        /\ line.port \notin ADDR_PORTS /\ line.port \notin DATA_PORTS
        /\ LET parsed == parse_line(line)
               is_match == frame_match(frame_spec, parsed.frame)
           IN  Read(line, is_match,
                    Header(is_match) \o Debug(parsed, is_match)
                    \o (IF is_match THEN <<UnhandledOut(parsed)>> ELSE <<>>))
        /\ UNCHANGED <<address, control_low>>

\* the file has ended: lines 239-242 (184-186 in generate_testpattern_csv)
Returns(p, printed_something) ==
    /\ prog = p /\ tp_pc = "read"
    /\ rc' = IF printed_something THEN 0 ELSE 1
    /\ tp_pc' = "exit"
    /\ UNCHANGED <<prog, input, frame_spec, nread, address, control_low, last_time,
                   printed_header, printed_any, printed, tp_last>>
    /\ UNCHANGED <<lines, emit_c_for_large, expand_threshold, i, out, pc, err,
                   stdout, exit_status, last, callvars, cmdvars>>

ConvertReturn == Returns("convert_testpattern", printed_header)

(* generate_testpattern_csv.py, lines 134-186 *)
GenerateScheduleDisplayStart ==
    \E line \in LogLines :
        /\ Reads("generate_testpattern_csv", line)
        /\ IsScheduleDisplayStart(line)
        /\ last_time' = 0
        /\ Read(line, FALSE, <<>>)
        /\ UNCHANGED <<address, control_low, printed_header, printed_any>>

GenerateUnparsed ==
    \E line \in LogLines :
        /\ Reads("generate_testpattern_csv", line)
        /\ ~IsScheduleDisplayStart(line)
        /\ parse_line(line) = NoLine
        /\ Read(line, FALSE, <<>>)
        /\ UNCHANGED <<address, control_low, last_time, printed_header, printed_any>>

\* an event was parsed, lines 146-154
GenerateParsed(line, type) ==
    /\ Reads("generate_testpattern_csv", line)
    /\ ~IsScheduleDisplayStart(line)
    /\ parse_line(line) # NoLine
    /\ parse_line(line).type = type
    /\ last_time' = parse_line(line).time
    /\ printed_any' = (printed_any \/ frame_match(frame_spec, parse_line(line).frame))
    /\ UNCHANGED <<address, control_low, printed_header>>

GenerateVSync ==
    \E line \in LogLines :
        /\ GenerateParsed(line, "vsync")
        /\ LET parsed == parse_line(line)
               is_match == frame_match(frame_spec, parsed.frame)
               cycles == step_cycles_count(Delta(parsed.time, last_time))
           IN  Read(line, is_match,
                    IF is_match THEN <<InfoCsv(parsed), CycleCsv(cycles)>> ELSE <<>>)

GenerateChange ==
    \E line \in LogLines :
        /\ GenerateParsed(line, "change")
        /\ LET parsed == parse_line(line)
               is_match == frame_match(frame_spec, parsed.frame)
           IN  Read(line, is_match, IF is_match THEN <<InfoCsv(parsed)>> ELSE <<>>)

GenerateWrite ==
    \E line \in LogLines :
        /\ GenerateParsed(line, "write")
        /\ LET parsed == parse_line(line)
               is_match == frame_match(frame_spec, parsed.frame)
               delta == Delta(parsed.time, last_time)
           IN  Read(line, is_match,
                    IF ~is_match THEN <<>>
                    ELSE <<IoCsv(parsed)>>
                         \o (IF delta > 0 THEN <<CycleCsv(step_cycles_count(delta))>>
                             ELSE <<>>))

GenerateReturn == Returns("generate_testpattern_csv", printed_any)

\* one of the two programs is started on a log, with or without a frame filter
InitTestPattern ==
    /\ prog \in {"convert_testpattern", "generate_testpattern_csv"}
    /\ input \in {"none", "missing", "log"}
    /\ frame_spec \in FrameSpecs
    /\ input = "none" => frame_spec = NoSpec
    /\ tp_pc = "start"
    /\ nread = 0
    /\ address = 0
    /\ control_low = None
    /\ last_time = 0
    /\ printed_header = FALSE
    /\ printed_any = FALSE
    /\ printed = <<>>
    /\ rc = -1
    /\ tp_last = [line |-> NoLine, is_match |-> FALSE, address |-> 0,
                  control_low |-> None, last_time |-> 0, nprinted |-> 0]
    /\ lines = <<>>
    /\ emit_c_for_large = FALSE
    /\ expand_threshold = MainThreshold
    /\ i = 0
    /\ out = <<>>
    /\ pc = "idle"
    /\ err = ""
    /\ stdout = <<>>
    /\ exit_status = -1
    /\ last = [kind |-> "none", from |-> 0, nout |-> 0]
    /\ calls = 1
    /\ first = [out |-> <<>>, err |-> "", pc |-> "none"]
    /\ argv = <<>>

NextTestPattern ==
    \/ StartConvert
    \/ ConvertScheduleDisplayStart
    \/ ConvertUnparsed
    \/ ConvertVSync
    \/ ConvertChange
    \/ ConvertControlWrite
    \/ ConvertDataWrite
    \/ ConvertUnknownPort
    \/ ConvertReturn
    \/ StartGenerate
    \/ GenerateScheduleDisplayStart
    \/ GenerateUnparsed
    \/ GenerateVSync
    \/ GenerateChange
    \/ GenerateWrite
    \/ GenerateReturn

SpecTestPattern == InitTestPattern /\ [][NextTestPattern]_vars

(***************************************************************************)
(* Programs in which the loop variable is named outside the body of a      *)
(* loop: in a statement before or after a loop, and in the header of one.  *)
(***************************************************************************)
ScopeLoops ==
    { ForBlockLines(NumHdr("i", a, "<", MaxBound, <<Id("i"), Op("++")>>), TRUE,
                    WriteCall(P_sym, E_i, TRUE), multi) :
        a \in 0..MaxBound, multi \in BOOLEAN }
    \cup { ForBlockLines(hdr, TRUE, WriteCall(P_sym, E_i, TRUE), FALSE) :
             hdr \in { ForHdr("i", E_i, "<", E_7, <<Id("i"), Op("++")>>),
                       ForHdr("i", <<Num(0)>>, "<", E_i, <<Id("i"), Op("++")>>),
                       ForHdr("i", <<Num(0)>>, "<", E_7, <<Id("i"), Op("+="), Id("i")>>),
                       ForHdr("i", <<Num(0)>>, "<", E_7,
                              <<Id("i"), Op("="), Id("i"), Op("+"), Id("i")>>) } }
    \cup { <<>> }

ScopeTails ==
    { <<WriteLine(FALSE, P_sym, E_i)>>,
      <<BlankLine, CommentLine(NoWrite), JunkLine("foo"), WriteLine(TRUE, P_sym, E_i254)>>,
      <<WriteLine(FALSE, P_hex, E_7)>> }
    \cup { <<RepeatLine(FALSE, cnt, WriteCall(P_sym, E_i, TRUE))>> : cnt \in 0..MaxCount }
    \cup { <<RepeatLine(FALSE, cnt, NoWrite), WriteLine(TRUE, P_sym, E_i)>> :
             cnt \in 0..MaxCount }

ScopePrograms ==
    { pre \o loop \o tail :
        pre \in { <<>>, <<WriteLine(FALSE, P_sym, E_i)>> },
        loop \in ScopeLoops, tail \in ScopeTails }

InitScope ==
    /\ lines \in ScopePrograms
    /\ emit_c_for_large \in BOOLEAN
    /\ expand_threshold \in 1..MaxThreshold
    /\ i = 0
    /\ out = <<>>
    /\ pc = "scan"
    /\ err = ""
    /\ stdout = <<>>
    /\ exit_status = -1
    /\ last = [kind |-> "none", from |-> 0, nout |-> 0]
    /\ calls = 1
    /\ first = [out |-> <<>>, err |-> "", pc |-> "none"]
    /\ argv = <<>>
    /\ TPIdle

SpecScope == InitScope /\ [][Next]_vars

(***************************************************************************)
(* What the claims speak of: the statement the scan handled last, the      *)
(* input lines it consumed and the output lines it put out; and the        *)
(* meaning of the input text, stated without the program's operators.      *)
(***************************************************************************)
Handled == last.kind # "none"
StmtLine == lines[last.from + 1]
Consumed == SubSeq(lines, last.from + 1, i)
Emitted == SubSeq(out, last.nout + 1, Len(out))

\* the address a port token denotes
Resolvable(port) == (port.k = "sym" /\ port.v \in 0..3) \/ port.k \in {"hex", "dec"}
ResolvedPort(port) == IF port.k = "sym" THEN 136 + port.v ELSE port.v

\* the text write_io(port, expr); with a port of the shapes the grammar gives
IsWriteCall(w) == w.present /\ w.semi /\ w.port.k \in {"sym", "hex", "dec", "dec0"}

\* a line that is a write call and nothing else
IsBareWriteLine(line) ==
    /\ IsWriteCall(line.write)
    /\ ~line.comment /\ line.rep < 0 /\ ~line.forh.present /\ ~line.begin
    /\ ~line.endkw /\ line.junk = ""

\* the value of the expressions the inputs use, i being iv
Evaluable(expr) == expr \in {E_i, E_i254, E_7, E_lit}
ValueOf(expr, iv) ==
    IF expr = E_i THEN iv
    ELSE IF expr = E_i254 THEN iv + 254
    ELSE IF expr = E_7 THEN 7
    ELSE 300

\* the three increment forms and the step each denotes
IncForms ==
    { <<Id("i"), Op("++")>> }
    \cup { <<Id("i"), Op("+="), Num(n)>> : n \in 0..MaxBound }
    \cup { <<Id("i"), Op("+="), Op("-"), Num(n)>> : n \in 1..MaxBound }
    \cup { <<Id("i"), Op("="), Id("i"), Op("+"), Num(n)>> : n \in 0..MaxBound }
StepOf(inc) ==
    IF Len(inc) = 2 THEN 1
    ELSE IF Len(inc) = 3 THEN inc[3].v
    ELSE IF Len(inc) = 4 THEN 0 - inc[4].v
    ELSE inc[5].v

\* a well-formed for-loop block: the header with numeric bounds and an
\* increment of the three forms, one write call, the closing end
WriteLinesOf(block) == {n \in 1..Len(block) : block[n].write.present}
IsForBlock(block) ==
    /\ block # <<>>
    /\ block[1].forh.present /\ block[1].begin
    /\ ~block[1].comment /\ block[1].rep < 0
    /\ block[1].forh.var = "i" /\ block[1].forh.cmp = "<"
    /\ Len(block[1].forh.start) = 1 /\ block[1].forh.start[1].k = "num"
    /\ Len(block[1].forh.end) = 1 /\ block[1].forh.end[1].k = "num"
    /\ block[1].forh.inc \in IncForms
    /\ Cardinality(WriteLinesOf(block)) = 1
    /\ \A n \in WriteLinesOf(block) :
          /\ IsWriteCall(block[n].write)
          /\ Resolvable(block[n].write.port)
          /\ Evaluable(block[n].write.expr)
    /\ block[Len(block)].endkw
LoopWrite(block) == block[CHOOSE n \in WriteLinesOf(block) : TRUE].write
LoopStart(block) == block[1].forh.start[1].v
LoopEnd(block) == block[1].forh.end[1].v
LoopStep(block) == StepOf(block[1].forh.inc)

\* total_iterations as the specification defines it
TotalIterations(start, stop, step) ==
    IF stop > start /\ step > 0 THEN ((stop - start - 1) \div step) + 1 ELSE 0
LoopTotal(block) == TotalIterations(LoopStart(block), LoopEnd(block), LoopStep(block))

\* the loop qualifies for compact emission
Qualifies(block) == emit_c_for_large /\ LoopTotal(block) > expand_threshold

AfterForBlock == Handled /\ last.kind = "for" /\ IsForBlock(Consumed)

IoCount(evs) == Cardinality({n \in 1..Len(evs) : evs[n].type = "IO"})

(***************************************************************************)
(* C1: a well-formed for-loop block with step > 0 that is expanded puts    *)
(* out exactly one IO line per iv = start, start+step, ... below end, in   *)
(* ascending order, each with the resolved port and the body's value at    *)
(* i = iv masked to 8 bits, and nothing else.                              *)
(***************************************************************************)
C1_ForLoopExpansion ==
    (AfterForBlock /\ LoopStep(Consumed) > 0 /\ ~Qualifies(Consumed)) =>
        /\ pc # "raised"
        /\ Len(Emitted) = LoopTotal(Consumed)
        /\ \A n \in 1..Len(Emitted) :
              Emitted[n] =
                [type |-> "IO",
                 port |-> ResolvedPort(LoopWrite(Consumed).port),
                 value |-> ValueOf(LoopWrite(Consumed).expr,
                                   LoopStart(Consumed) + (n - 1) * LoopStep(Consumed))
                           % 256]

\* a loop of three iterations was expanded and its third value wrapped to 0
C1_Witness ==
    /\ AfterForBlock /\ LoopStep(Consumed) > 0 /\ ~Qualifies(Consumed)
    /\ LoopWrite(Consumed).expr = E_i254
    /\ Len(Emitted) = 3
    /\ Emitted[3].value = 0

(***************************************************************************)
(* C2: for every loop with step # 0, positive or negative, the number of   *)
(* IO lines an expansion puts out equals total_iterations.                 *)
(***************************************************************************)
C2_CountEqualsTotal ==
    (AfterForBlock /\ LoopStep(Consumed) # 0 /\ ~Qualifies(Consumed)) =>
        IoCount(Emitted) = LoopTotal(Consumed)

(***************************************************************************)
(* C3: a loop is written as a compact loop only if total_iterations is     *)
(* above expand_threshold and compact emission is on, and then no IO line  *)
(* is put out for it; otherwise (equality included) it is expanded and no  *)
(* compact loop is put out.                                                *)
(***************************************************************************)
C3_CompactDecision ==
    (AfterForBlock /\ LoopStep(Consumed) # 0) =>
        /\ (\E n \in 1..Len(Emitted) : Emitted[n].type = "C") =>
              /\ Qualifies(Consumed)
              /\ \A n \in 1..Len(Emitted) : Emitted[n].type = "C"
        /\ ~Qualifies(Consumed) =>
              /\ pc # "raised"
              /\ \A n \in 1..Len(Emitted) : Emitted[n].type = "IO"
              /\ LoopStep(Consumed) > 0 => Len(Emitted) = LoopTotal(Consumed)

\* compact emission is on and the loop has exactly expand_threshold iterations:
\* it was expanded
C3_Witness ==
    /\ AfterForBlock /\ LoopStep(Consumed) > 0
    /\ emit_c_for_large
    /\ LoopTotal(Consumed) = expand_threshold
    /\ Len(Emitted) = expand_threshold
    /\ Emitted[1].type = "IO"

(***************************************************************************)
(* C4: a loop that qualifies for compact emission never fails the run: it  *)
(* puts out one compact loop whose port is the resolved address of the     *)
(* port token and whose bounds and step are the evaluated ones, for        *)
(* symbolic and numeric port tokens alike.                                 *)
(***************************************************************************)
C4_CompactNeverFails ==
    (AfterForBlock /\ LoopStep(Consumed) > 0 /\ Qualifies(Consumed)) =>
        /\ pc # "raised"
        /\ Len(Emitted) = 5
        /\ \A n \in 1..Len(Emitted) : Emitted[n].type = "C"
        /\ Emitted[2].start = LoopStart(Consumed)
        /\ Emitted[2].end = LoopEnd(Consumed)
        /\ Emitted[2].step = LoopStep(Consumed)
        /\ Emitted[4].port = ResolvedPort(LoopWrite(Consumed).port)

(***************************************************************************)
(* C5: a line holding repeat(N) write_io(port, expr); with or without      *)
(* leading indentation, puts out exactly N identical IO lines.             *)
(***************************************************************************)
IsInlineRepeatLine(line) ==
    /\ line.rep >= 0 /\ IsWriteCall(line.write)
    /\ ~line.comment /\ ~line.forh.present /\ ~line.begin
    /\ ~line.endkw /\ line.junk = ""

C5_InlineRepeat ==
    (/\ Handled /\ IsInlineRepeatLine(StmtLine)
     /\ Resolvable(StmtLine.write.port) /\ Evaluable(StmtLine.write.expr)
     /\ StmtLine.write.expr # E_i) =>
        /\ pc # "raised"
        /\ Len(Emitted) = StmtLine.rep
        /\ \A n \in 1..Len(Emitted) :
              Emitted[n] = [type |-> "IO",
                            port |-> ResolvedPort(StmtLine.write.port),
                            value |-> ValueOf(StmtLine.write.expr, 0) % 256]

(***************************************************************************)
(* C6: a standalone repeat(N) line followed, after blank lines, by a bare  *)
(* write call has the outcome of the inline repeat of the same N, port and *)
(* expr: the same IO lines or the same fatal error.                        *)
(***************************************************************************)
C6_StandaloneAsInline ==
    (/\ Handled /\ last.kind = "repeat"
     /\ i > last.from + 1 /\ IsBareWriteLine(lines[i])) =>
        [lines |-> Emitted, err |-> err] =
            InlineWrites(StmtLine.rep, lines[i].write.port, lines[i].write.expr)

(***************************************************************************)
(* C7: when the line after a standalone repeat(N) is not a write call,     *)
(* both the repeat line and the line consumed after it reach the output    *)
(* as INFO content.                                                        *)
(***************************************************************************)
InfoHolds(evs, line) ==
    \E n \in 1..Len(evs) :
        /\ evs[n].type = "INFO"
        /\ \E m \in 1..Len(evs[n].text) : evs[n].text[m] = StripLine(line)

C7_SkippedLineKept ==
    (/\ Handled /\ last.kind = "repeat"
     /\ i > last.from + 1 /\ ~IsBlank(lines[i]) /\ ~IsWriteCall(lines[i].write)) =>
        /\ InfoHolds(Emitted, StmtLine)
        /\ InfoHolds(Emitted, lines[i])

(***************************************************************************)
(* C8: a triggered for block whose header or inner write call does not     *)
(* match is put out whole, as one INFO line holding every line from the    *)
(* trigger line to the end line; no error is raised and the scan goes on.  *)
(***************************************************************************)
HeaderMismatch(block) ==
    block[1].forh.var # "i" \/ block[1].forh.cmp \notin {"<", "<="}
WriteMismatch(block) == \A n \in 1..Len(block) : ~IsWriteCall(block[n].write)

C8_MalformedBlockPassthrough ==
    (/\ Handled /\ last.kind = "for"
     /\ HeaderMismatch(Consumed) \/ WriteMismatch(Consumed)) =>
        /\ pc = "scan"
        /\ Len(Emitted) = 1
        /\ Emitted[1].type = "INFO"
        /\ Len(Emitted[1].text) = Len(Consumed)
        /\ \A n \in 1..Len(Consumed) :
              StripLine(Emitted[1].text[n]) = StripLine(Consumed[n])

(***************************************************************************)
(* C9: output lines are only ever appended: every step keeps the lines     *)
(* already put out, unchanged and in place, and what a statement adds      *)
(* comes after everything the statements before it put out.                *)
(***************************************************************************)
C9_AppendOnly ==
    [][/\ Len(out') >= Len(out)
       /\ SubSeq(out', 1, Len(out)) = out
       /\ Len(out') > Len(out) => last'.nout = Len(out)]_vars

\* two statements have put out lines, the later one after the earlier one
C9_Witness ==
    /\ Handled /\ last.nout >= 1 /\ Len(out) > last.nout
    /\ out[1] # out[Len(out)]

(***************************************************************************)
(* C10: a write statement whose port token is neither a known symbolic     *)
(* name nor a numeric literal is a fatal error: the run is aborted.        *)
(***************************************************************************)
C10_UnknownPortFatal ==
    (/\ Handled
     /\ StmtLine.write.present /\ StmtLine.write.semi
     /\ StmtLine.write.port.k = "name"
     /\ ~StmtLine.comment /\ StmtLine.rep < 0 /\ ~StmtLine.forh.present
     /\ ~StmtLine.begin /\ ~StmtLine.endkw /\ StmtLine.junk = "") =>
        pc = "raised" /\ err = "port"

(***************************************************************************)
(* C11: the evaluator accepts exactly the binary operators + - * // % <<   *)
(* >> | & ^ (and unary - + ~) over integers and gives the mathematically   *)
(* expected integer: 10 // 3 is accepted and is 3, and a binary operator   *)
(* outside the set is rejected.                                            *)
(***************************************************************************)
\* what the expressions denote, floor division and modulo rounding down
OperatorValues ==
    { <<E_bin(7, "+", 5), 12>>, <<E_bin(5, "-", 7), -2>>, <<E_bin(7, "*", 5), 35>>,
      <<E_bin(10, "//", 3), 3>>, <<E_bin(10, "%", 3), 1>>, <<E_bin(1, "<<", 3), 8>>,
      <<E_bin(16, ">>", 2), 4>>, <<E_bin(6, "|", 9), 15>>, <<E_bin(6, "&", 3), 2>>,
      <<E_bin(6, "^", 3), 5>>, <<E_neg(7, "//", 2), -4>>, <<E_neg(7, "%", 3), 2>>,
      <<E_neg(16, ">>", 2), -4>>,
      <<<<Op("-"), Num(7)>>, -7>>, <<<<Op("+"), Num(7)>>, 7>>,
      <<<<Op("~"), Num(5)>>, -6>>, <<<<Op("-"), Op("-"), Num(3)>>, 3>>,
      <<<<Num(1), Op("+"), Num(2), Op("*"), Num(3)>>, 7>>,
      <<<<Op("("), Num(1), Op("+"), Num(2), Op(")"), Op("*"), Num(3)>>, 9>>,
      <<<<Num(1), Op("|"), Num(6), Op("&"), Num(3), Op("^"), Num(5)>>, 7>> }

\* binary operators outside the set
OutsideOperatorExprs ==
    { E_bin(10, "/", 3), E_neg(7, "/", 2), E_bin(2, "**", 3), E_bin(1, "@", 2),
      E_bin(1, "<", 2) }

AfterBareWrite == Handled /\ last.kind = "write" /\ IsBareWriteLine(StmtLine)

C11_OperatorSet ==
    (AfterBareWrite /\ Resolvable(StmtLine.write.port)) =>
        /\ \A c \in OperatorValues :
              StmtLine.write.expr = c[1] =>
                  /\ pc # "raised"
                  /\ Emitted = << [type |-> "IO",
                                   port |-> ResolvedPort(StmtLine.write.port),
                                   value |-> c[2] % 256] >>
        /\ StmtLine.write.expr \in OutsideOperatorExprs =>
              pc = "raised" /\ err = "eval"

(***************************************************************************)
(* C12: an expression that holds an identifier absent from the variable    *)
(* mapping, or a construct outside the whitelist (call, comparison,        *)
(* attribute, collection, conditional, non-integer constant), always       *)
(* fails and never gives a value; with no mapping, as in a bare write or   *)
(* an inline repeat, every identifier is an error, i included.             *)
(***************************************************************************)
HasIdentifier(expr) == \E n \in 1..Len(expr) : expr[n].k = "id"

\* a statement that evaluates its expression once, with no mapping
AfterUnmappedEval ==
    /\ Handled /\ last.kind \in {"write", "repeat_inline"}
    /\ IsWriteCall(StmtLine.write)

C12_UnknownOrUnsupportedFails ==
    (/\ AfterUnmappedEval
     /\ HasIdentifier(StmtLine.write.expr) \/ StmtLine.write.expr \in ConstructExprs) =>
        /\ pc = "raised" /\ err = "eval"
        /\ Emitted = <<>>

(***************************************************************************)
(* C13: every expression of a shape-matched statement (bare write, inline  *)
(* repeat, standalone repeat, the body, start, end and step of a for       *)
(* loop) is checked by the evaluator: when one of them is malformed the    *)
(* run is aborted, for every repeat count and iteration count, zero        *)
(* included, in expand and in compact mode.                                *)
(***************************************************************************)
\* the expression holds j, a name no mapping binds
UsesJ(expr) == \E n \in 1..Len(expr) : expr[n].k = "id" /\ expr[n].s = "j"

\* a for block of the header shape with one write call and its end
IsShapedLoop(block) ==
    /\ block # <<>>
    /\ block[1].forh.present /\ block[1].begin
    /\ ~block[1].comment /\ block[1].rep < 0
    /\ block[1].forh.var = "i" /\ block[1].forh.cmp = "<"
    /\ Cardinality(WriteLinesOf(block)) = 1
    /\ \A n \in WriteLinesOf(block) : IsWriteCall(block[n].write)
    /\ block[Len(block)].endkw

C13_EveryExpressionChecked ==
    /\ (AfterUnmappedEval /\ UsesJ(StmtLine.write.expr)) => pc = "raised"
    /\ (/\ Handled /\ last.kind = "repeat"
        /\ i > last.from + 1 /\ IsBareWriteLine(lines[i])
        /\ UsesJ(lines[i].write.expr)) => pc = "raised"
    /\ (/\ Handled /\ last.kind = "for" /\ IsShapedLoop(Consumed)
        /\ \/ UsesJ(LoopWrite(Consumed).expr)
           \/ UsesJ(Consumed[1].forh.start)
           \/ UsesJ(Consumed[1].forh.end)
           \/ UsesJ(Consumed[1].forh.inc)) => pc = "raised"

(***************************************************************************)
(* C14: an expression captured from a shape-matched write call is never    *)
(* silently taken as zero: an IO line of value 0 comes from an expression  *)
(* whose value is a multiple of 256, never from captured text that is      *)
(* empty, blank or a stray ";".                                            *)
(***************************************************************************)
\* text with no expression in it: blanks and semicolons only
IsVacant(expr) == \A n \in 1..Len(expr) : expr[n].k \in {"ws", "semi"}

C14_NeverSilentlyZero ==
    (AfterUnmappedEval /\ IsVacant(StmtLine.write.expr)) =>
        \A n \in 1..Len(Emitted) :
            ~(Emitted[n].type = "IO" /\ Emitted[n].value = 0)

(***************************************************************************)
(* C15: exactly three increment texts give a step: i++ gives 1, i += e     *)
(* and i = i + e give the value of e; every other increment text (a bare   *)
(* integer, j++, i = i - 1) fails as an unsupported increment and never    *)
(* gives a step.                                                           *)
(***************************************************************************)
HasNumericBounds(block) ==
    /\ Len(block[1].forh.start) = 1 /\ block[1].forh.start[1].k = "num"
    /\ Len(block[1].forh.end) = 1 /\ block[1].forh.end[1].k = "num"

C15_ThreeIncrementForms ==
    (/\ Handled /\ last.kind = "for"
     /\ IsShapedLoop(Consumed) /\ HasNumericBounds(Consumed)
     /\ Consumed[1].forh.inc \notin IncForms) =>
        /\ pc = "raised" /\ err = "increment"
        /\ Emitted = <<>>

(***************************************************************************)
(* C16: a for block whose header and inner write call both match and      *)
(* whose increment evaluates to 0 ends the run in the error state before   *)
(* any iteration: no line is put out for the loop, and the error is the    *)
(* zero-step error whenever start and end evaluate.                        *)
(***************************************************************************)
MatchesHeader(block) ==
    /\ block # <<>>
    /\ block[1].forh.present /\ block[1].begin
    /\ ~block[1].comment /\ block[1].rep < 0
    /\ block[1].forh.var = "i" /\ block[1].forh.cmp = "<"

HasZeroIncrement(block) ==
    block[1].forh.inc \in IncForms /\ StepOf(block[1].forh.inc) = 0

C16_ZeroStepFails ==
    (/\ Handled /\ last.kind = "for"
     /\ IsShapedLoop(Consumed) /\ HasZeroIncrement(Consumed)) =>
        /\ pc = "raised"
        /\ Emitted = <<>>
        /\ HasNumericBounds(Consumed) => err = "zero_step"

\* a zero-step loop after a valid statement ended the run with the zero-step error
C16_Witness ==
    /\ Handled /\ last.kind = "for"
    /\ IsShapedLoop(Consumed) /\ HasZeroIncrement(Consumed)
    /\ last.nout >= 1
    /\ pc = "raised" /\ err = "zero_step"

\* C16 as stated: every block whose header matches and whose increment
\* evaluates to 0 fails with the zero-step error, never ending as an INFO line
C16_AnyMatchingHeader ==
    (/\ Handled /\ last.kind = "for"
     /\ MatchesHeader(Consumed) /\ HasZeroIncrement(Consumed)) =>
        /\ pc = "raised" /\ err = "zero_step"
        /\ Emitted = <<>>

(***************************************************************************)
(* C17: a fatal error at any statement ends the whole run with a nonzero   *)
(* exit status and nothing written: not one line reaches the output, the   *)
(* lines of the valid statements before the failing one included; exit     *)
(* status 0 is that of a run that completed the pass.                      *)
(***************************************************************************)
C17_AllOrNothing ==
    /\ pc = "raised" => (exit_status = 1 /\ stdout = <<>>)
    /\ exit_status > 0 => (pc = "raised" /\ err # "" /\ stdout = <<>>)
    /\ exit_status = 0 => (pc = "done" /\ err = "" /\ i >= Len(lines) /\ stdout = out)
    /\ stdout # <<>> => exit_status = 0

\* the run failed after valid statements had put out IO lines; none was written
C17_Witness ==
    /\ pc = "raised" /\ exit_status = 1
    /\ last.nout >= 1 /\ out[1].type = "IO"
    /\ stdout = <<>>

(***************************************************************************)
(* C18: the value of every IO line is in 0..255 and is the evaluated       *)
(* result modulo 256, for negative results and results above 255 too.      *)
(***************************************************************************)
\* values outside 0..255 and at its edges
WideValues ==
    { <<<<Num(0)>>, 0>>, <<<<Num(256)>>, 256>>, <<<<Num(511)>>, 511>>,
      <<E_lit, 300>>, <<E_7, 7>> }

\* v is r modulo 256: in 0..255 and a multiple of 256 away from r
IsMod256(v, r) == v \in 0..255 /\ \E k \in -1..3 : r = v + 256 * k

C18_ValueMasked ==
    /\ \A n \in 1..Len(out) : out[n].type = "IO" => out[n].value \in 0..255
    /\ (AfterBareWrite /\ Resolvable(StmtLine.write.port)) =>
          \A c \in OperatorValues \cup WideValues :
              (StmtLine.write.expr = c[1] /\ Emitted # <<>>) =>
                  /\ Len(Emitted) = 1 /\ Emitted[1].type = "IO"
                  /\ IsMod256(Emitted[1].value, c[2])

\* 5 - 7 was put out as 254 and, after it, 12'h12C as 44
C18_Witness ==
    /\ AfterBareWrite /\ StmtLine.write.expr = E_lit
    /\ last.nout >= 1
    /\ lines[last.from].write.expr = E_bin(5, "-", 7)
    /\ out[last.nout].value = 254
    /\ Emitted[1].value = 44

(***************************************************************************)
(* C19: the port of every IO line is a 16-bit address, 0..65535, written   *)
(* as the two-hex-digit field of the output grammar, for every port token  *)
(* the write shape accepts, large decimal and hex literals included.       *)
(***************************************************************************)
C19_PortField ==
    \A n \in 1..Len(out) :
        out[n].type = "IO" =>
            /\ out[n].port \in 0..65535
            /\ Width02x(out[n].port) = 2

(***************************************************************************)
(* C20: literal normalisation keeps the value and ignores the width: a     *)
(* sized or unsized hex or decimal literal, underscores between its digits *)
(* or not, evaluates to the integer its digit group denotes whatever the   *)
(* declared width is (4'hFF is 255); text that is no recognised literal    *)
(* is left as it is, but for each ";" turned into a blank.                 *)
(***************************************************************************)
\* the integers the literals of the inputs denote
LiteralValues ==
    { <<E_hFF, 255>>,
      <<<<SizedLit(16, "d", <<"1", "_", "0", "0", "0">>)>>, 1000>>,
      <<<<UnsizedLit("d", <<"0", "8">>)>>, 8>>,
      <<<<UnsizedLit("h", <<"f", "F", "_">>)>>, 255>>,
      <<<<SizedLit(8, "h", <<"_", "F">>)>>, 15>>,
      <<<<UnsizedLit("h", <<"1", "2", "C">>)>>, 300>>,
      <<E_lit, 300>>,
      <<E_hFF \o <<Op("+"), Num(1)>>, 256>> }

\* the body texts of the inputs and what normalisation is to make of them
NormalizedBodies ==
    { <<E_i, E_i>>, <<E_7, E_7>>, <<E_j, E_j>>, <<E_i_b10, E_i_b10>>,
      <<E_i_hFF, <<Id("i"), Op("+"), HexNum(255), Ws, Ws>>>> }

C20_LiteralValuePreserved ==
    /\ (AfterBareWrite /\ Resolvable(StmtLine.write.port)) =>
          \A c \in LiteralValues :
              StmtLine.write.expr = c[1] =>
                  /\ pc # "raised"
                  /\ Len(Emitted) = 1
                  /\ IsMod256(Emitted[1].value, c[2])
    \* the bound 1'd2 of a loop is 2
    /\ (/\ Handled /\ last.kind = "for" /\ IsShapedLoop(Consumed)
        /\ Consumed[1].forh.start = <<Num(0)>> /\ Consumed[1].forh.end = E_d2
        /\ Consumed[1].forh.inc = <<Id("i"), Op("++")>>
        /\ Resolvable(LoopWrite(Consumed).port)
        /\ ~(emit_c_for_large /\ 2 > expand_threshold)) =>
          /\ pc # "raised"
          /\ Len(Emitted) = 2
    \* the body text a compact loop carries
    /\ (/\ Handled /\ last.kind = "for" /\ IsShapedLoop(Consumed)
        /\ Len(Emitted) = 5 /\ Emitted[3].type = "C") =>
          \A c \in NormalizedBodies :
              LoopWrite(Consumed).expr = c[1] => Emitted[3].expr = c[2]

\* 4'hFF was put out as 255
C20_Witness ==
    /\ AfterBareWrite /\ Resolvable(StmtLine.write.port)
    /\ StmtLine.write.expr = E_hFF
    /\ Emitted = << [type |-> "IO", port |-> ResolvedPort(StmtLine.write.port),
                     value |-> 255] >>

HoldsEnd(line) == line.endkw \/ line.junk = "endmodule"

\* the line after which an accumulation begun on line n stops: the first
\* later line holding "end", or the last line of the input
AccumulationEnd(n) ==
    LET later == {m \in (n + 1)..Len(lines) : HoldsEnd(lines[m])}
    IN  IF later = {} THEN Len(lines) ELSE CHOOSE m \in later : \A k \in later : m <= k

\* the line a lookahead begun after line n stops before: the first later line
\* that is not blank, or the position past the input
LookaheadEnd(n) ==
    LET later == {m \in (n + 1)..Len(lines) : ~IsBlank(lines[m])}
    IN  IF later = {} THEN Len(lines) + 1 ELSE CHOOSE m \in later : \A k \in later : m <= k

\* the run has ended: process_lines returned and main printed, or it raised
Ended == pc \in {"done", "raised"}

\* a step the run can take: an iteration of the while loop on the line under
\* the cursor, the return past the last line, or the printing by main
CanStep ==
    \/ pc = "scan" /\ i < Len(lines)
          /\ Branch(lines[i + 1]) \in {"blank", "comment", "repeat_inline", "for",
                                       "write", "repeat", "unknown"}
    \/ pc = "scan" /\ i >= Len(lines)
    \/ pc = "returned"

\* what is left to do: the lines not yet scanned, then the return and the print
Remaining ==
    IF pc = "scan" THEN Len(lines) - i + 2
    ELSE IF pc = "returned" THEN 1
    ELSE 0

\* C22: the scan terminates on every finite input: a run that has not returned
\* and printed or raised always has a step to take, every step leaves less to
\* do (each iteration moves the cursor forward within the input), the
\* accumulation of a for block stops with the first later line holding "end"
\* or with the last line, and the lookahead of a standalone repeat stops at the
\* next line that is not blank or past the input
C22_ScanTerminates ==
    /\ [](Ended \/ CanStep)
    /\ [][Remaining' < Remaining /\ Remaining' >= 0]_vars
    /\ [](Handled =>
            /\ last.from < i /\ i <= Len(lines)
            /\ (last.kind = "for" /\ ~HoldsEnd(StmtLine)) =>
                   i = AccumulationEnd(last.from + 1)
            /\ (last.kind = "for" /\ HoldsEnd(StmtLine)) => i = last.from + 1
            /\ last.kind = "repeat" =>
                   i = IF LookaheadEnd(last.from + 1) > Len(lines) THEN Len(lines)
                       ELSE LookaheadEnd(last.from + 1))

\* a block of three lines was accumulated up to its end line and the scan goes
\* on with the line after it; it ends later
C22_Witness ==
    /\ Handled /\ last.kind = "for" /\ ~HoldsEnd(StmtLine)
    /\ i = last.from + 3 /\ i < Len(lines)
    /\ HoldsEnd(lines[i])
    /\ pc = "scan"

(***************************************************************************)
(* C23                                                                     *)
(***************************************************************************)
\* the output lines an event takes when printed: the text of an INFO event is
\* the sequence of the input lines it quotes, with a line break between two
\* of them
PrintedLines(ev) == IF ev.type = "INFO" THEN Len(ev.text) ELSE 1

\* C23: every INFO and IO event of the output occupies exactly one output
\* line, the INFO event of a for block passed through included
C23_OneLinePerEvent ==
    \A n \in 1..Len(out) :
        out[n].type \in {"INFO", "IO"} => PrintedLines(out[n]) = 1

(***************************************************************************)
(* C24                                                                     *)
(***************************************************************************)
\* the command line holds a numeric override of the threshold, as an option
\* followed by the number or as one argument, and asks for no help
OverrideGiven ==
    /\ \A n \in 1..Len(argv) : argv[n].s \notin {"-h", "--help"}
    /\ \/ \E n \in 1..Len(argv) : argv[n].s = "--threshold=" /\ argv[n].v > 0
       \/ \E n \in 1..(Len(argv) - 1) :
            argv[n].s = "--threshold" /\ argv[n + 1].s = "" /\ argv[n + 1].v > 0

\* the number the override holds
OverrideValue ==
    LET at == {n \in 1..Len(argv) : argv[n].v > 0}
    IN  argv[CHOOSE n \in at : \A m \in at : n <= m].v

\* C24: a command line may hold a numeric override of the expansion threshold
\* next to the input source and the flag for compact emission; it is accepted
\* (no usage error) and the run decides between compacting and expanding with
\* the number supplied rather than with the default
C24_ThresholdOverride ==
    (OverrideGiven /\ pc # "main") =>
        /\ pc # "usage"
        /\ expand_threshold = OverrideValue

(***************************************************************************)
(* C25                                                                     *)
(***************************************************************************)
\* the line read last is an event: a line its pattern matches, with a time
\* int takes
IsEvent(line) == line.type \in {"write", "vsync", "change"} /\ ~line.tz

IsControlWrite(line) == IsEvent(line) /\ line.type = "write" /\ line.port \in {137, 153}
IsDataWrite(line) == IsEvent(line) /\ line.type = "write" /\ line.port \in {136, 152}

\* the low eight bits of a value
LowByte(v) == v - 256 * (v \div 256)

\* convert_testpattern has read a line
ConvertHasRead == prog = "convert_testpattern" /\ tp_last.line.type # "none"

\* C25: in convert_testpattern the writes to a control port (0x89, 0x99) are
\* taken in pairs from the start of the log: the first only latches its low
\* byte and leaves the address, the second sets the address to
\* ((high & 0xFF) << 8) | low and empties the latch; a write to a data port
\* (0x88, 0x98) increments the address modulo 2^16; nothing else changes the
\* two, whether or not the frame of the line passes the filter; the address is
\* always within 0..65535 and the latch empty or within 0..255
C25_AddressAndLatch ==
    prog = "convert_testpattern" =>
        /\ address \in 0..65535
        /\ control_low = None \/ control_low \in 0..255
        /\ (tp_pc = "read" /\ nread = 0) => (address = 0 /\ control_low = None)
        /\ ConvertHasRead =>
            LET line == tp_last.line
            IN  IF IsControlWrite(line) /\ tp_last.control_low = None
                THEN control_low = LowByte(line.value) /\ address = tp_last.address
                ELSE IF IsControlWrite(line)
                THEN /\ address = LowByte(line.value) * 256 + tp_last.control_low
                     /\ control_low = None
                ELSE IF IsDataWrite(line)
                THEN /\ address = (IF tp_last.address = 65535 THEN 0
                                   ELSE tp_last.address + 1)
                     /\ control_low = tp_last.control_low
                ELSE address = tp_last.address /\ control_low = tp_last.control_low

\* the second write of a pair, of a frame the filter does not pass, set the
\* address 0xFF34 from the low byte 0x34 and the value 0x1FF
C25_Witness ==
    /\ ConvertHasRead
    /\ IsControlWrite(tp_last.line) /\ tp_last.line.value = 511
    /\ tp_last.control_low = 52 /\ ~tp_last.is_match
    /\ address = 65332 /\ control_low = None

(***************************************************************************)
(* C26                                                                     *)
(***************************************************************************)
\* the value of the variable address of the printed program after its
\* statements prg: the header initialises it, "address = ...;" sets it and
\* "address++;" increments it (uint16_t); -1 before the header
RECURSIVE ProgramAddress(_)
ProgramAddress(prg) ==
    IF prg = <<>> THEN -1
    ELSE IF prg[Len(prg)].k \in {"init", "set"} THEN prg[Len(prg)].v
    ELSE IF prg[Len(prg)].k = "inc"
         THEN (ProgramAddress(SubSeq(prg, 1, Len(prg) - 1)) + 1) % 65536
    ELSE ProgramAddress(SubSeq(prg, 1, Len(prg) - 1))

\* the line read last printed a call of vdp_cartridge_write_io
WriteCallPrinted ==
    /\ ConvertHasRead /\ tp_last.is_match /\ IsDataWrite(tp_last.line)
    /\ Len(printed) >= 2 /\ printed[Len(printed) - 1].k = "write_io"

\* C26: at every printed call vdp_cartridge_write_io(address, ...) the variable
\* address of the printed program holds the address the converter had for
\* that write, for every log and every frame filter
C26_ProgramAddressTracks ==
    WriteCallPrinted =>
        ProgramAddress(SubSeq(printed, 1, Len(printed) - 2)) = tp_last.address

(***************************************************************************)
(* C27                                                                     *)
(***************************************************************************)
\* what the line read last printed, and the cycle counts in it
NewlyPrinted == SubSeq(printed, tp_last.nprinted + 1, Len(printed))
CycleCounts == SelectSeq(NewlyPrinted, LAMBDA o : o.k \in {"step_cycles", "CYCLE"})

\* the time passed between the event read last and the one before it
Elapsed ==
    IF tp_last.line.time > tp_last.last_time
    THEN tp_last.line.time - tp_last.last_time
    ELSE 0

\* C27: in both programs last_time is the time of the event read last, matched
\* or not, or 0 after a scheduleDisplayStart line and at the start; every
\* cycle count printed is 4 * max(0, time - last_time); a VSYNC of a matched
\* frame prints its count even when it is 0; a matched write, and a matched
\* register change in convert_testpattern, prints one only when the delta is
\* above 0; a line of a frame not matched prints none
C27_CycleCount ==
    /\ (prog # "none" /\ tp_pc = "read" /\ nread = 0) => last_time = 0
    /\ (prog # "none" /\ tp_last.line.type # "none") =>
        LET line == tp_last.line
        IN  /\ IsEvent(line) => last_time = line.time
            /\ line.type = "schedule" => last_time = 0
            /\ (~IsEvent(line) /\ line.type # "schedule") => last_time = tp_last.last_time
            /\ IsEvent(line) =>
                /\ \A k \in 1..Len(CycleCounts) : CycleCounts[k].v = 4 * Elapsed
                /\ (line.type = "vsync" /\ tp_last.is_match) => Len(CycleCounts) = 1
                /\ (tp_last.is_match
                      /\ \/ line.type = "write"
                         \/ line.type = "change" /\ prog = "convert_testpattern") =>
                        Len(CycleCounts) = (IF Elapsed > 0 THEN 1 ELSE 0)
                /\ ~tp_last.is_match => CycleCounts = <<>>
            /\ ~IsEvent(line) => NewlyPrinted = <<>>

\* a VSYNC of a matched frame that comes at the time of the event before it
\* printed the count 0, after a line of a frame not matched had moved last_time
C27_Witness ==
    /\ prog = "generate_testpattern_csv"
    /\ tp_last.line.type = "vsync" /\ tp_last.is_match
    /\ tp_last.last_time = MaxTime /\ tp_last.line.time = MaxTime
    /\ frame_spec.given /\ tp_last.nprinted = 0 /\ nread >= 2
    /\ CycleCounts = <<CycleCsv(0)>>

(***************************************************************************)
(* C28                                                                     *)
(***************************************************************************)
\* the expression names the loop variable
NamesLoopVar(expr) == \E k \in 1..Len(expr) : expr[k] = Id("i")

\* the statement handled last is a write or a repeat, inline or with its
\* write on the line after it, and the expression written names i
WritesLoopVarOutsideLoop ==
    /\ Handled /\ last.kind \in {"write", "repeat_inline", "repeat"}
    /\ LET w == Consumed[Len(Consumed)].write
       IN  w.present /\ w.semi /\ w.port = P_sym /\ NamesLoopVar(w.expr)

\* the statement handled last is a for block with its write, and the start,
\* the end or the step of its header names i (the step beyond its own "i +=",
\* "i = i +" or "i++")
HeaderNamesLoopVar ==
    /\ Handled /\ last.kind = "for" /\ HeaderShape(StmtLine)
    /\ \E k \in 1..Len(Consumed) : IsWriteCall(Consumed[k].write)
    /\ \/ NamesLoopVar(StmtLine.forh.start)
       \/ NamesLoopVar(StmtLine.forh.end)
       \/ StmtLine.forh.inc[Len(StmtLine.forh.inc)] = Id("i")

\* C28: the loop variable is bound only while the body expression of its own
\* loop is evaluated: the start, end and step of the header do not see it,
\* nor does any statement before or after the loop, so a bare write or a
\* repeat that names i ends the run with the error of an unknown identifier,
\* whatever loops were handled before
C28_LoopVariableLocal ==
    (WritesLoopVarOutsideLoop \/ HeaderNamesLoopVar) =>
        (pc = "raised" /\ err = "eval")

(***************************************************************************)
(* C29                                                                     *)
(***************************************************************************)
\* the first characters of the line that are not blank are "//"
IsCommentLine(line) == line.comment

\* C29: comments come before every other shape: a line that begins with "//"
\* is a statement of its own that puts out exactly one INFO event with its
\* text, no IO event, begins no accumulation and takes no line after it,
\* whatever its text holds; so no other statement takes such a line
C29_CommentPrecedence ==
    (Handled /\ \E k \in 1..Len(Consumed) : IsCommentLine(Consumed[k])) =>
        /\ last.kind = "comment"
        /\ Len(Consumed) = 1
        /\ Len(Emitted) = 1
        /\ Emitted[1].type = "INFO"
        /\ Emitted[1].text = <<[StmtLine EXCEPT !.indent = FALSE, !.comment = FALSE]>>

(***************************************************************************)
(* C30                                                                     *)
(***************************************************************************)
\* C30: the cursor stays within 0 and the number of input lines and never
\* goes back; every statement takes the lines from the cursor the statement
\* before it left up to its own, at least one, so that no line is taken by two
\* statements; a blank line outside a for block adds no event: skipped on its
\* own it leaves the output as it is, and passed over by the lookahead of a
\* standalone repeat it leaves only the events of the repeat
C30_CursorAndBlankLines ==
    /\ [](0 <= i /\ i <= Len(lines))
    /\ [][i' >= i]_vars
    /\ [][last' # last => (last'.from = i /\ i' > i /\ last'.nout = Len(out))]_vars
    /\ [](Handled =>
            /\ 0 <= last.from /\ last.from < i
            /\ last.kind = "blank" => (Len(Consumed) = 1 /\ Emitted = <<>>)
            /\ last.kind = "repeat" =>
                 \A k \in 1..Len(Emitted) :
                     \/ Emitted[k].type = "IO"
                     \/ Emitted[k] = [type |-> "INFO",
                                      text |-> <<[StmtLine EXCEPT !.indent = FALSE]>>])

\* a blank line after a statement that had put out events was skipped, and the
\* scan goes on with the line after it
C30_Witness ==
    /\ Handled /\ last.kind = "blank"
    /\ last.from >= 1 /\ Len(out) >= 1 /\ Emitted = <<>>
    /\ i < Len(lines) /\ pc = "scan"

(***************************************************************************)
(* C31                                                                     *)
(***************************************************************************)
\* a line that is not blank and has none of the shapes of a statement: no
\* comment, no repeat, no for with its begin, no write call with a port of
\* the grammar, an expression and its ";"
IsUnshapedLine(line) ==
    /\ ~IsBlank(line) /\ ~line.comment /\ line.rep < 0
    /\ ~(line.forh.present /\ line.begin)
    /\ ~(IsWriteCall(line.write) /\ line.write.expr # <<>>)

\* C31: a write call on a line of its own, the statement of no repeat and no
\* for block, puts out exactly one IO event with the resolved port and the
\* value of its expression masked to 8 bits, the expression being evaluated
\* with no variable bound (one that names i ends the run); every other line
\* that is not blank and has no statement shape puts out exactly one INFO
\* event with the text of the line; either leaves the cursor just past the
\* one line
C31_BareWriteAndUnknownLine ==
    /\ (Handled /\ IsBareWriteLine(StmtLine) /\ Resolvable(StmtLine.write.port)) =>
          /\ i = last.from + 1
          /\ \A c \in WideValues :
                StmtLine.write.expr = c[1] =>
                    /\ pc # "raised"
                    /\ Emitted = << [type |-> "IO",
                                     port |-> ResolvedPort(StmtLine.write.port),
                                     value |-> c[2] % 256] >>
          /\ NamesLoopVar(StmtLine.write.expr) =>
                (pc = "raised" /\ err = "eval" /\ Emitted = <<>>)
    /\ (Handled /\ IsUnshapedLine(StmtLine)) =>
          /\ i = last.from + 1
          /\ pc # "raised"
          /\ Emitted = << [type |-> "INFO",
                           text |-> <<[StmtLine EXCEPT !.indent = FALSE]>>] >>

\* a write of 7 to port 0x8a was put out as one IO event and the line "foo"
\* after it as one INFO event
C31_Witness ==
    /\ Handled /\ IsUnshapedLine(StmtLine) /\ StmtLine.junk = "foo"
    /\ last.from = 1 /\ IsBareWriteLine(lines[1]) /\ lines[1].write.expr = E_7
    /\ out = << [type |-> "IO", port |-> 138, value |-> 7],
                [type |-> "INFO", text |-> <<StmtLine>>] >>
    /\ i = 2



=============================================================================
